---------------------------- MODULE Spec2Model ----------------------------
(***************************************************************************)
(* Model of the RISC-V instruction codec in src/src/lib.rs: the bit-field  *)
(* kernel (InstCode / InstCodeC), the uncompressed decoder, the compressed *)
(* decoder, the width-detecting decoder and the encoder.                   *)
(*                                                                         *)
(* A u32 is a function 0..31 -> {0,1} (bit 0 is the least significant), a  *)
(* u16 a function 0..15 -> {0,1}, and the u64 payload of an Imm a function *)
(* 0..63 -> {0,1}: TLC's integers are 32-bit signed, so a machine word is  *)
(* kept as its bits and only narrow fields are turned into numbers.        *)
(* Rust's overflow checks (shift amount >= width, unsigned underflow) and  *)
(* unreachable!/assert! are modelled as the result "Panic".                *)
(***************************************************************************)
EXTENDS Integers, Sequences, FiniteSets, TLC

VARIABLES
    xlen,   \* the Xlen the caller passes to every call: "Rv32" or "Rv64"
    pc,     \* the caller's position: "idle", "decoded", "encoded", "redecoded", "asked", "rounded",
            \* "built", "built_encoded", "built_redecoded", "printed", "queried",
            \* "scattered", "gathered", "any_built", "any_encoded"
    entry,  \* the decoder entry point last called: "normal", "compressed", "auto", "none"
    code,   \* the word last handed to that entry point (u32, or u16 for "compressed")
    res,    \* its result: Ok(inst) / Ok((inst, IsCompressed)) / Err(DecodeError)
    enc,    \* encode_normal(res.inst, xlen) once the caller has encoded it
    res2,   \* decode_normal(enc, xlen) once the caller has decoded the encoded word
    fb,     \* [byte, ret] of the last first_byte_is_compressed call
    rnd,    \* [rm, ret] of the last RoundingMode::from_rm call
    built,  \* the Inst the caller built by hand, encoded into enc and decoded by decode() into res2
    out,    \* what Display printed for res.inst, or what the Fence queries returned for it
    sg      \* an immediate scattered into a word by with_imm_m and gathered from it by imm_m

vars == <<xlen, pc, entry, code, res, enc, res2, fb, rnd, built, out, sg>>

None == "none"

-----------------------------------------------------------------------------
(* Machine integers as bit vectors.                                        *)


\* value as u32, for a non-negative number below 2^31
FromNat(n) == [i \in 0..31 |-> IF i <= 30 THEN (n \div (2 ^ i)) % 2 ELSE 0]

\* value as u16
FromNat16(n) == [i \in 0..15 |-> (n \div (2 ^ i)) % 2]

RECURSIVE BitsToNat(_, _, _)
BitsToNat(x, i, hi) == IF i > hi THEN 0 ELSE x[i] + 2 * BitsToNat(x, i + 1, hi)

\* the number a u32 holds; every u32 turned into a number here is below 2^31
ToNat(x) == BitsToNat(x, 0, 30)

\* u32 << n and u32 >> n (the shift amount is checked by the callers)
Shl(x, n) == [i \in 0..31 |-> IF i >= n THEN x[i - n] ELSE 0]
Shr(x, n) == [i \in 0..31 |-> IF i + n <= 31 THEN x[i + n] ELSE 0]
\* (x as i32) >> n, the arithmetic shift
Sar(x, n) == [i \in 0..31 |-> IF i + n <= 31 THEN x[i + n] ELSE x[31]]
BitAnd(x, y) == [i \in 0..31 |-> x[i] * y[i]]
BitOr(x, y) == [i \in 0..31 |-> IF x[i] = 1 THEN 1 ELSE y[i]]
BitNot(x) == [i \in 0..31 |-> 1 - x[i]]

\* u16 << n (bits shifted past bit 15 are lost) and u16 >> n
Shl16(x, n) == [i \in 0..15 |-> IF i >= n THEN x[i - n] ELSE 0]
Shr16(x, n) == [i \in 0..15 |-> IF i + n <= 15 THEN x[i + n] ELSE 0]

\* `x as u16` of a u32, and `x as u32` of a u16
AsU16(x) == [i \in 0..15 |-> x[i]]
U16AsU32(x) == [i \in 0..31 |-> IF i <= 15 THEN x[i] ELSE 0]

\* the outcome of an overflow check, unreachable! or assert! that fails
PANIC == 0 - 1
PANIC_BITS == << >>

\* a u32 as a number, handing a panic on
Num(x) == IF x = PANIC_BITS THEN PANIC ELSE ToNat(x)

Max(a, b) == IF a >= b THEN a ELSE b

-----------------------------------------------------------------------------
(* Imm: the u64 payload.                                                   *)

\* a faulty Imm::new_i32 that zero-extends: value as u32 as u64
new_i32_zext(v) == [i \in 0..63 |-> IF i <= 31 THEN v[i] ELSE 0]

\* Imm::new_i32: value as i64 as u64
new_i32(v) == [i \in 0..63 |-> IF i <= 31 THEN v[i] ELSE v[31]]

\* Imm::new_u32: value as u64
new_u32(v) == [i \in 0..63 |-> IF i <= 31 THEN v[i] ELSE 0]

\* Imm::as_u32: self.0 as u32
as_u32(imm) == [i \in 0..31 |-> imm[i]]

\* Imm::as_i32: self.0 as i32, the i32 as its 32 two's-complement bits
as_i32(imm) == [i \in 0..31 |-> imm[i]]

\* Imm::as_u64: self.0
as_u64(imm) == [i \in 0..63 |-> imm[i]]

\* Imm::as_i64: self.0 as i64, the i64 as its 64 two's-complement bits
as_i64(imm) == [i \in 0..63 |-> imm[i]]

\* Imm::ZERO
ImmZERO == new_u32(FromNat(0))

-----------------------------------------------------------------------------
(* The bit-field kernel. A range lo..=hi is passed as its two ends, a      *)
(* mapping (range, to) as <<lo, hi, to>>.                                  *)

\* sign_extend(value, size): right = u32::BITS - size;
\* (((value << right) as i32) >> right) as u32
sign_extend(value, size) ==
    IF value = PANIC_BITS \/ size > 32 \/ 32 - size >= 32
    THEN PANIC_BITS
    ELSE Sar(Shl(value, 32 - size), 32 - size)

\* (1 << n) - 1 as u32, for 0 <= n <= 31: the low n bits set
span_item(n) == [i \in 0..31 |-> IF i < n THEN 1 ELSE 0]

\* InstCode::extract: end_span = 32 - (end + 1);
\* (self.0 << end_span) >> (end_span + start)
extract(c, start, end) ==
    IF end + 1 > 32 \/ 32 - (end + 1) >= 32 \/ (32 - (end + 1)) + start >= 32
    THEN PANIC_BITS
    ELSE Shr(Shl(c, 32 - (end + 1)), (32 - (end + 1)) + start)

\* a faulty InstCode::insert that does not mask the data:
\* self.0 & !(span_item << start) | (data << start)
insert_unmasked(c, start, end, data) ==
    IF c = PANIC_BITS \/ data = PANIC_BITS
       \/ start > end \/ end - start + 1 >= 32 \/ start >= 32
    THEN PANIC_BITS
    ELSE BitOr(BitAnd(c, BitNot(Shl(span_item(end - start + 1), start))), Shl(data, start))

\* InstCode::insert: span_item = (1 << (end - start + 1)) - 1;
\* self.0 & !(span_item << start) | ((data & span_item) << start)
insert(c, start, end, data) ==
    IF c = PANIC_BITS \/ data = PANIC_BITS
       \/ start > end \/ end - start + 1 >= 32 \/ start >= 32
    THEN PANIC_BITS
    ELSE BitOr(BitAnd(c, BitNot(Shl(span_item(end - start + 1), start))),
               Shl(BitAnd(data, span_item(end - start + 1)), start))

\* the loop of immediate_s / immediate_u over the first k mappings:
\* imm |= self.extract(from) << to
RECURSIVE gather(_, _, _)
gather(c, mappings, k) ==
    IF k = 0 THEN FromNat(0)
    ELSE LET imm == gather(c, mappings, k - 1)
             value == extract(c, mappings[k][1], mappings[k][2])
         IN  IF imm = PANIC_BITS \/ value = PANIC_BITS \/ mappings[k][3] >= 32
             THEN PANIC_BITS
             ELSE BitOr(imm, Shl(value, mappings[k][3]))

\* a faulty size that keeps the last mapping's end instead of the greatest
imm_size_last(mappings, k) ==
    IF k = 0 THEN 0 ELSE mappings[k][3] + (mappings[k][2] - mappings[k][1] + 1)

\* size = size.max(to + (from.end() - from.start() + 1)) over the first k mappings
RECURSIVE imm_size(_, _)
imm_size(mappings, k) ==
    IF k = 0 THEN 0
    ELSE Max(imm_size(mappings, k - 1),
             mappings[k][3] + (mappings[k][2] - mappings[k][1] + 1))

\* InstCode::immediate_s: Imm::new_i32(sign_extend(imm, size) as i32)
immediate_s(c, mappings) ==
    LET v == sign_extend(gather(c, mappings, Len(mappings)),
                         imm_size(mappings, Len(mappings)))
    IN  IF v = PANIC_BITS THEN PANIC_BITS ELSE new_i32(v)

\* the fold of with_immediate_s over the first k mappings:
\* this.insert(from, data.as_u32() >> to)
RECURSIVE scatter(_, _, _, _)
scatter(c, mappings, data, k) ==
    IF k = 0 THEN c
    ELSE IF mappings[k][3] >= 32 THEN PANIC_BITS
    ELSE insert(scatter(c, mappings, data, k - 1), mappings[k][1], mappings[k][2],
                Shr(as_u32(data), mappings[k][3]))

\* InstCode::with_immediate_s
with_immediate_s(c, mappings, data) == scatter(c, mappings, data, Len(mappings))

\* a faulty opcode that drops bit 6
opcode_6bits(c) == ToNat(BitAnd(c, FromNat(\b0111111)))

\* InstCode::opcode: self.0 & 0b1111111
opcode(c) == ToNat(BitAnd(c, FromNat(\b1111111)))

\* InstCode::with_opcode: self.0 & !mask | (opcode & mask)
with_opcode(c, op) ==
    BitOr(BitAnd(c, BitNot(FromNat(\b1111111))), BitAnd(FromNat(op), FromNat(\b1111111)))

\* `x as u8` of a u32 held as a number
AsU8(n) == IF n = PANIC THEN PANIC ELSE n % 256

funct3(c) == Num(extract(c, 12, 14))
funct7(c) == Num(extract(c, 25, 31))
with_funct3(c, data) == insert(c, 12, 14, FromNat(data))
\* a faulty with_funct7 that writes bits 31..26 only
with_funct7_6bits(c, data) == insert(c, 26, 31, FromNat(data))
with_funct7(c, data) == insert(c, 25, 31, FromNat(data))
rs1(c) == AsU8(Num(extract(c, 15, 19)))
rs2(c) == AsU8(Num(extract(c, 20, 24)))
with_rs1(c, data) == insert(c, 15, 19, FromNat(data))
with_rs2(c, data) == insert(c, 20, 24, FromNat(data))
\* a faulty rs2_imm that reads four bits only
rs2_imm_4bits(c) == extract(c, 20, 23)
rs2_imm(c) == extract(c, 20, 24)
\* a faulty rs2_imm_plus that reads five bits only
rs2_imm_plus_5bits(c) == extract(c, 20, 24)
rs2_imm_plus(c) == extract(c, 20, 25)
with_rs2_imm(c, data) == insert(c, 20, 24, data)
\* a faulty with_rs2_imm_plus that writes five bits only
with_rs2_imm_plus_5bits(c, data) == insert(c, 20, 24, data)
with_rs2_imm_plus(c, data) == insert(c, 20, 25, data)
rd(c) == AsU8(Num(extract(c, 7, 11)))
with_rd(c, data) == insert(c, 7, 11, FromNat(data))
frd(c) == AsU8(Num(extract(c, 7, 11)))
with_frd(c, data) == insert(c, 7, 11, FromNat(data))
frs1(c) == AsU8(Num(extract(c, 15, 19)))
with_frs1(c, data) == insert(c, 15, 19, FromNat(data))
frs2(c) == AsU8(Num(extract(c, 20, 24)))
\* a faulty with_frs2 that writes bits 23..20 only
with_frs2_4bits(c, data) == insert(c, 20, 23, FromNat(data))
\* self.insert(20..=24, data.0 as u32)
with_frs2(c, data) == insert(c, 20, 24, FromNat(data))
frs3(c) == AsU8(Num(extract(c, 27, 31)))
with_frs3(c, data) == insert(c, 27, 31, FromNat(data))
\* a faulty csr that drops bit 31
csr_11bits(c) == LET n == Num(extract(c, 20, 30)) IN IF n = PANIC THEN PANIC ELSE n % 65536
\* Csr(self.extract(20..=31) as u16)
csr(c) == LET n == Num(extract(c, 20, 31)) IN IF n = PANIC THEN PANIC ELSE n % 65536
\* a faulty with_csr that writes bits 30..20 only
with_csr_11bits(c, data) == insert(c, 20, 30, FromNat(data))
\* self.insert(20..=31, data.0 as u32)
with_csr(c, data) == insert(c, 20, 31, FromNat(data))
\* a faulty zimm that takes bit 20 as well
zimm_6bits(c) == LET v == extract(c, 15, 20) IN IF v = PANIC_BITS THEN PANIC_BITS ELSE new_u32(v)
\* Imm::new_u32(self.extract(15..=19))
zimm(c) == LET v == extract(c, 15, 19) IN IF v = PANIC_BITS THEN PANIC_BITS ELSE new_u32(v)
with_zimm(c, data) == insert(c, 15, 19, as_u32(data))
\* a faulty rm that drops bit 14
rm_2bits(c) == Num(extract(c, 12, 13))
\* self.extract(12..=14)
rm(c) == Num(extract(c, 12, 14))
with_rm(c, data) == insert(c, 12, 14, FromNat(data))


imm_i(c) == immediate_s(c, << <<20, 31, 0>> >>)
imm_s(c) == immediate_s(c, << <<25, 31, 5>>, <<7, 11, 0>> >>)
imm_b(c) == immediate_s(c, << <<31, 31, 12>>, <<7, 7, 11>>, <<25, 30, 5>>, <<8, 11, 1>> >>)
imm_u(c) == immediate_s(c, << <<12, 31, 12>> >>)
imm_j(c) == immediate_s(c, << <<31, 31, 20>>, <<21, 30, 1>>, <<20, 20, 11>>, <<12, 19, 12>> >>)
with_imm_i(c, data) == with_immediate_s(c, << <<20, 31, 0>> >>, data)
with_imm_s(c, data) == with_immediate_s(c, << <<25, 31, 5>>, <<7, 11, 0>> >>, data)
with_imm_b(c, data) == with_immediate_s(c, << <<31, 31, 12>>, <<7, 7, 11>>, <<25, 30, 5>>, <<8, 11, 1>> >>, data)
with_imm_u(c, data) == with_immediate_s(c, << <<12, 31, 12>> >>, data)
with_imm_j(c, data) == with_immediate_s(c, << <<31, 31, 20>>, <<21, 30, 1>>, <<20, 20, 11>>, <<12, 19, 12>> >>, data)

\* Imm::new_u32 of a kernel value, handing a panic on
new_u32_of(v) == IF v = PANIC_BITS THEN PANIC_BITS ELSE new_u32(v)

-----------------------------------------------------------------------------
(* Results. An Inst is a record whose "variant" names the enum variant and *)
(* whose other fields are the variant's fields: Reg, FReg and Csr are the  *)
(* wrapped numbers, an Imm is its 64 payload bits.                         *)

\* a faulty Xlen::is_32 that is never true
is_32_never(x) == FALSE
is_32(x) == x = "Rv32"
is_64(x) == x = "Rv64"

PanicResult == [tag |-> "Panic"]


\* Ok(inst), unless computing one of its operands panicked
Ok(inst) ==
    IF \E f \in DOMAIN inst :
          \/ f \in {"imm", "offset", "uimm"} /\ inst[f] = PANIC_BITS
          \/ f \in {"dest", "src", "src1", "src2", "src3", "base", "addr", "csr"} /\ inst[f] = PANIC
    THEN PanicResult
    ELSE [tag |-> "Ok", inst |-> inst]

\* decode_error(instruction, unexpected_field), returned as Err
Err(c, field) == [tag |-> "Err", instruction |-> c, unexpected_field |-> field]

\* r, unless computing the matched value v panicked
Chk(v, r) == IF v = PANIC THEN PanicResult ELSE r

\* AmoOrdering::from_aq_rl
from_aq_rl(aq, rl) ==
    CASE ~aq /\ ~rl -> "Relaxed"
      [] aq /\ ~rl -> "Acquire"
      [] ~aq /\ rl -> "Release"
      [] aq /\ rl -> "SeqCst"

\* AmoOrdering::aq_rl
aq_rl(order) ==
    CASE order = "Relaxed" -> <<FALSE, FALSE>>
      [] order = "Acquire" -> <<TRUE, FALSE>>
      [] order = "Release" -> <<FALSE, TRUE>>
      [] order = "SeqCst" -> <<TRUE, TRUE>>

\* RoundingMode::from_rm (None for the reserved values)
from_rm(n) ==
    CASE n = \b000 -> "RoundToNearestTiesToEven"
      [] n = \b001 -> "RoundTowardsZero"
      [] n = \b010 -> "RoundDown"
      [] n = \b011 -> "RoundUp"
      [] n = \b100 -> "RoundToNearestTiesToMax"
      [] n = \b111 -> "Dynamic"
      [] OTHER -> None

\* RoundingMode::to_rm
to_rm(r) ==
    CASE r = "RoundToNearestTiesToEven" -> \b000
      [] r = "RoundTowardsZero" -> \b001
      [] r = "RoundDown" -> \b010
      [] r = "RoundUp" -> \b011
      [] r = "RoundToNearestTiesToMax" -> \b100
      [] r = "Dynamic" -> \b111

-----------------------------------------------------------------------------
(* Inst::decode_normal, one operator per major opcode.                     *)

dn_JALR(c, x) ==
    Chk(funct3(c),
    CASE funct3(c) = \b000 -> Ok([variant |-> "Jalr", offset |-> imm_i(c), base |-> rs1(c), dest |-> rd(c)])
      [] OTHER -> Err(c, "JALR funct3"))

dn_BRANCH(c, x) ==
    Chk(funct3(c),
    CASE funct3(c) = \b000 -> Ok([variant |-> "Beq", offset |-> imm_b(c), src1 |-> rs1(c), src2 |-> rs2(c)])
      [] funct3(c) = \b001 -> Ok([variant |-> "Bne", offset |-> imm_b(c), src1 |-> rs1(c), src2 |-> rs2(c)])
      [] funct3(c) = \b100 -> Ok([variant |-> "Blt", offset |-> imm_b(c), src1 |-> rs1(c), src2 |-> rs2(c)])
      [] funct3(c) = \b101 -> Ok([variant |-> "Bge", offset |-> imm_b(c), src1 |-> rs1(c), src2 |-> rs2(c)])
      [] funct3(c) = \b110 -> Ok([variant |-> "Bltu", offset |-> imm_b(c), src1 |-> rs1(c), src2 |-> rs2(c)])
      [] funct3(c) = \b111 -> Ok([variant |-> "Bgeu", offset |-> imm_b(c), src1 |-> rs1(c), src2 |-> rs2(c)])
      [] OTHER -> Err(c, "BRANCH funct3"))

dn_LOAD(c, x) ==
    Chk(funct3(c),
    CASE funct3(c) = \b000 -> Ok([variant |-> "Lb", offset |-> imm_i(c), dest |-> rd(c), base |-> rs1(c)])
      [] funct3(c) = \b001 -> Ok([variant |-> "Lh", offset |-> imm_i(c), dest |-> rd(c), base |-> rs1(c)])
      [] funct3(c) = \b010 -> Ok([variant |-> "Lw", offset |-> imm_i(c), dest |-> rd(c), base |-> rs1(c)])
      [] funct3(c) = \b011 ->
            IF is_32(x) THEN Err(c, "LD is not supported on RV32")
            ELSE Ok([variant |-> "Ld", offset |-> imm_i(c), dest |-> rd(c), base |-> rs1(c)])
      [] funct3(c) = \b100 -> Ok([variant |-> "Lbu", offset |-> imm_i(c), dest |-> rd(c), base |-> rs1(c)])
      [] funct3(c) = \b101 -> Ok([variant |-> "Lhu", offset |-> imm_i(c), dest |-> rd(c), base |-> rs1(c)])
      [] funct3(c) = \b110 ->
            IF is_32(x) THEN Err(c, "LWU is not supported on RV32")
            ELSE Ok([variant |-> "Lwu", offset |-> imm_i(c), dest |-> rd(c), base |-> rs1(c)])
      [] OTHER -> Err(c, "Invalid funct3 for LOAD instruction"))

dn_STORE(c, x) ==
    Chk(funct3(c),
    CASE funct3(c) = \b000 -> Ok([variant |-> "Sb", offset |-> imm_s(c), src |-> rs2(c), base |-> rs1(c)])
      [] funct3(c) = \b001 -> Ok([variant |-> "Sh", offset |-> imm_s(c), src |-> rs2(c), base |-> rs1(c)])
      [] funct3(c) = \b010 -> Ok([variant |-> "Sw", offset |-> imm_s(c), src |-> rs2(c), base |-> rs1(c)])
      [] funct3(c) = \b011 ->
            IF is_32(x) THEN Err(c, "SD is not supported on RV32")
            ELSE Ok([variant |-> "Sd", offset |-> imm_s(c), src |-> rs2(c), base |-> rs1(c)])
      [] OTHER -> Err(c, "STORE funct3"))

\* funct3 = 001 of OP-IMM: left_zeroes = funct7 >> (0 on Rv32, 1 on Rv64)
dn_OP_IMM_slli(c, x) ==
    LET left_zeroes == IF x = "Rv32" THEN funct7(c) ELSE funct7(c) \div 2
    IN  Chk(funct7(c),
        IF left_zeroes # 0 THEN Err(c, "slli shift overflow")
        ELSE Ok([variant |-> "Slli", imm |-> imm_i(c), dest |-> rd(c), src1 |-> rs1(c)]))

\* funct3 = 101 of OP-IMM
dn_OP_IMM_srli(c, x) ==
    Chk(funct7(c),
    IF x = "Rv32"
    THEN CASE funct7(c) = \b0000000 ->
                Ok([variant |-> "Srli", imm |-> new_u32_of(rs2_imm(c)), dest |-> rd(c), src1 |-> rs1(c)])
           [] funct7(c) = \b0100000 ->
                Ok([variant |-> "Srai", imm |-> new_u32_of(rs2_imm(c)), dest |-> rd(c), src1 |-> rs1(c)])
           [] OTHER -> Err(c, "srli shift overflow")
    ELSE LET upper == funct7(c) \div 2
         IN  CASE upper = \b010000 ->
                    Ok([variant |-> "Srai", imm |-> new_u32_of(rs2_imm_plus(c)), dest |-> rd(c), src1 |-> rs1(c)])
               [] upper = \b000000 ->
                    Ok([variant |-> "Srli", imm |-> new_u32_of(rs2_imm_plus(c)), dest |-> rd(c), src1 |-> rs1(c)])
               [] OTHER -> Err(c, "srai/srli upper bits"))

dn_OP_IMM(c, x) ==
    Chk(funct3(c),
    CASE funct3(c) = \b000 -> Ok([variant |-> "Addi", imm |-> imm_i(c), dest |-> rd(c), src1 |-> rs1(c)])
      [] funct3(c) = \b010 -> Ok([variant |-> "Slti", imm |-> imm_i(c), dest |-> rd(c), src1 |-> rs1(c)])
      [] funct3(c) = \b011 -> Ok([variant |-> "Sltiu", imm |-> imm_i(c), dest |-> rd(c), src1 |-> rs1(c)])
      [] funct3(c) = \b100 -> Ok([variant |-> "Xori", imm |-> imm_i(c), dest |-> rd(c), src1 |-> rs1(c)])
      [] funct3(c) = \b110 -> Ok([variant |-> "Ori", imm |-> imm_i(c), dest |-> rd(c), src1 |-> rs1(c)])
      [] funct3(c) = \b111 -> Ok([variant |-> "Andi", imm |-> imm_i(c), dest |-> rd(c), src1 |-> rs1(c)])
      [] funct3(c) = \b001 -> dn_OP_IMM_slli(c, x)
      [] funct3(c) = \b101 -> dn_OP_IMM_srli(c, x)
      [] OTHER -> Err(c, "OP-IMM funct3"))

dn_OP_IMM_32(c, x) ==
    IF is_32(x) THEN Err(c, "OP-IMM-32 only on RV64")
    ELSE Chk(funct3(c), Chk(funct7(c),
    CASE funct3(c) = \b000 -> Ok([variant |-> "AddiW", imm |-> imm_i(c), dest |-> rd(c), src1 |-> rs1(c)])
      [] funct3(c) = \b001 ->
            IF funct7(c) # 0 THEN Err(c, "SLLIW funct7")
            ELSE Ok([variant |-> "SlliW", imm |-> new_u32_of(rs2_imm(c)), dest |-> rd(c), src1 |-> rs1(c)])
      [] funct3(c) = \b101 ->
            CASE funct7(c) = \b0000000 ->
                    Ok([variant |-> "SrliW", imm |-> new_u32_of(rs2_imm(c)), dest |-> rd(c), src1 |-> rs1(c)])
              [] funct7(c) = \b0100000 ->
                    Ok([variant |-> "SraiW", imm |-> new_u32_of(rs2_imm(c)), dest |-> rd(c), src1 |-> rs1(c)])
              [] OTHER -> Err(c, "OP-IMM-32 funct7")
      [] OTHER -> Err(c, "OP-IMM-32 funct3")))

\* Inst::<variant> { dest, src1, src2 } of OP and OP-32
RInst(c, v) == Ok([variant |-> v, dest |-> rd(c), src1 |-> rs1(c), src2 |-> rs2(c)])

dn_OP(c, x) ==
    LET f3 == funct3(c)
        f7 == funct7(c)
    IN  Chk(f3, Chk(f7,
        CASE f3 = \b000 /\ f7 = \b0000000 -> RInst(c, "Add")
          [] f3 = \b000 /\ f7 = \b0100000 -> RInst(c, "Sub")
          [] f3 = \b001 /\ f7 = \b0000000 -> RInst(c, "Sll")
          [] f3 = \b010 /\ f7 = \b0000000 -> RInst(c, "Slt")
          [] f3 = \b011 /\ f7 = \b0000000 -> RInst(c, "Sltu")
          [] f3 = \b100 /\ f7 = \b0000000 -> RInst(c, "Xor")
          [] f3 = \b101 /\ f7 = \b0000000 -> RInst(c, "Srl")
          [] f3 = \b101 /\ f7 = \b0100000 -> RInst(c, "Sra")
          [] f3 = \b110 /\ f7 = \b0000000 -> RInst(c, "Or")
          [] f3 = \b111 /\ f7 = \b0000000 -> RInst(c, "And")
          [] f3 = \b000 /\ f7 = \b0000001 -> RInst(c, "Mul")
          [] f3 = \b001 /\ f7 = \b0000001 -> RInst(c, "Mulh")
          [] f3 = \b010 /\ f7 = \b0000001 -> RInst(c, "Mulhsu")
          [] f3 = \b011 /\ f7 = \b0000001 -> RInst(c, "Mulhu")
          [] f3 = \b100 /\ f7 = \b0000001 -> RInst(c, "Div")
          [] f3 = \b101 /\ f7 = \b0000001 -> RInst(c, "Divu")
          [] f3 = \b110 /\ f7 = \b0000001 -> RInst(c, "Rem")
          [] f3 = \b111 /\ f7 = \b0000001 -> RInst(c, "Remu")
          [] OTHER -> Err(c, "OP funct3/funct7")))

dn_OP_32(c, x) ==
    IF is_32(x) THEN Err(c, "OP-IMM-32 only on RV64")
    ELSE LET f3 == funct3(c)
             f7 == funct7(c)
         IN  Chk(f3, Chk(f7,
             CASE f3 = \b000 /\ f7 = \b0000000 -> RInst(c, "AddW")
               [] f3 = \b000 /\ f7 = \b0100000 -> RInst(c, "SubW")
               [] f3 = \b001 /\ f7 = \b0000000 -> RInst(c, "SllW")
               [] f3 = \b101 /\ f7 = \b0000000 -> RInst(c, "SrlW")
               [] f3 = \b101 /\ f7 = \b0100000 -> RInst(c, "SraW")
               [] f3 = \b000 /\ f7 = \b0000001 -> RInst(c, "MulW")
               [] f3 = \b100 /\ f7 = \b0000001 -> RInst(c, "DivW")
               [] f3 = \b101 /\ f7 = \b0000001 -> RInst(c, "DivuW")
               [] f3 = \b110 /\ f7 = \b0000001 -> RInst(c, "RemW")
               [] f3 = \b111 /\ f7 = \b0000001 -> RInst(c, "RemuW")
               [] OTHER -> Err(c, "OP-32 funct3/funct7")))

\* one bit of the word as a bool: code.extract(b..=b) == 1
bit_set(c, b) == Num(extract(c, b, b)) = 1

dn_MISC_MEM(c, x) ==
    LET fm == Num(extract(c, 28, 31))
        pred == [device_input |-> bit_set(c, 27), device_output |-> bit_set(c, 26),
                 memory_read |-> bit_set(c, 25), memory_write |-> bit_set(c, 24)]
        succ == [device_input |-> bit_set(c, 23), device_output |-> bit_set(c, 22),
                 memory_read |-> bit_set(c, 21), memory_write |-> bit_set(c, 20)]
    IN  IF PANIC \in {fm, rd(c), rs1(c)} \/ \E b \in 20..27 : extract(c, b, b) = PANIC_BITS
        THEN PanicResult
        ELSE Chk(funct3(c),
             CASE funct3(c) = \b000 ->
                    Ok([variant |-> "Fence",
                        fence |-> [fm |-> fm % 256, pred |-> pred, succ |-> succ,
                                   dest |-> rd(c), src |-> rs1(c)]])
               [] OTHER -> Err(c, "MISC-MEM funct3"))

\* 0b11000000000000000001000001110011
UnimpWord == [i \in 0..31 |-> IF i \in {0, 1, 4, 5, 6, 12, 30, 31} THEN 1 ELSE 0]

dn_SYSTEM(c, x) ==
    IF c = UnimpWord THEN Err(c, "unimp instruction")
    ELSE Chk(funct3(c),
    CASE funct3(c) = \b000 ->
            IF rd(c) = PANIC \/ rs1(c) = PANIC \/ imm_i(c) = PANIC_BITS THEN PanicResult
            ELSE IF rd(c) # 0 THEN Err(c, "SYSTEM rd")
            ELSE IF rs1(c) # 0 THEN Err(c, "SYSTEM rs1")
            ELSE CASE as_u32(imm_i(c)) = FromNat(\b000000000000) -> Ok([variant |-> "Ecall"])
                   [] as_u32(imm_i(c)) = FromNat(\b000000000001) -> Ok([variant |-> "Ebreak"])
                   [] OTHER -> Err(c, "SYSTEM imm")
      [] funct3(c) = \b001 -> Ok([variant |-> "Csrrw", csr |-> csr(c), dest |-> rd(c), src |-> rs1(c)])
      [] funct3(c) = \b010 -> Ok([variant |-> "Csrrs", csr |-> csr(c), dest |-> rd(c), src |-> rs1(c)])
      [] funct3(c) = \b011 -> Ok([variant |-> "Csrrc", csr |-> csr(c), dest |-> rd(c), src |-> rs1(c)])
      [] funct3(c) = \b101 -> Ok([variant |-> "Csrrwi", csr |-> csr(c), dest |-> rd(c), uimm |-> zimm(c)])
      [] funct3(c) = \b110 -> Ok([variant |-> "Csrrsi", csr |-> csr(c), dest |-> rd(c), uimm |-> zimm(c)])
      [] funct3(c) = \b111 -> Ok([variant |-> "Csrrci", csr |-> csr(c), dest |-> rd(c), uimm |-> zimm(c)])
      [] OTHER -> Err(c, "SYSTEM funct3"))

\* a faulty kind table with And and Or exchanged
amo_op_swapped(kind) ==
    CASE kind = \b00001 -> "Swap"
      [] kind = \b00000 -> "Add"
      [] kind = \b00100 -> "Xor"
      [] kind = \b01100 -> "Or"
      [] kind = \b01000 -> "And"
      [] kind = \b10000 -> "Min"
      [] kind = \b10100 -> "Max"
      [] kind = \b11000 -> "Minu"
      [] kind = \b11100 -> "Maxu"
      [] OTHER -> None

\* the AmoOp selected by bits 31..27, None for an unknown value
amo_op(kind) ==
    CASE kind = \b00001 -> "Swap"
      [] kind = \b00000 -> "Add"
      [] kind = \b00100 -> "Xor"
      [] kind = \b01100 -> "And"
      [] kind = \b01000 -> "Or"
      [] kind = \b10000 -> "Min"
      [] kind = \b10100 -> "Max"
      [] kind = \b11000 -> "Minu"
      [] kind = \b11100 -> "Maxu"
      [] OTHER -> None

dn_AMO(c, x) ==
    Chk(funct3(c),
    IF funct3(c) # \b010 THEN Err(c, "AMO width funct3")
    ELSE LET kind == Num(extract(c, 27, 31))
             aq == bit_set(c, 26)
             rl == bit_set(c, 25)
             order == from_aq_rl(aq, rl)
         IN  IF kind = PANIC \/ extract(c, 26, 26) = PANIC_BITS \/ extract(c, 25, 25) = PANIC_BITS
             THEN PanicResult
             ELSE CASE kind = \b00010 ->
                        Chk(rs2(c),
                        IF rs2(c) # 0 THEN Err(c, "AMO.LR rs2")
                        ELSE Ok([variant |-> "LrW", order |-> order, dest |-> rd(c), addr |-> rs1(c)]))
                    [] kind = \b00011 ->
                        Ok([variant |-> "ScW", order |-> order, dest |-> rd(c), addr |-> rs1(c), src |-> rs2(c)])
                    [] OTHER ->
                        IF amo_op(kind) = None THEN Err(c, "AMO op funct7")
                        ELSE Ok([variant |-> "AmoW", order |-> order, op |-> amo_op(kind),
                                 dest |-> rd(c), addr |-> rs1(c), src |-> rs2(c)]))

dn_LOAD_FP(c, x) ==
    Chk(funct3(c),
    CASE funct3(c) = \b010 -> Ok([variant |-> "Flw", offset |-> imm_i(c), dest |-> frd(c), base |-> rs1(c)])
      [] funct3(c) = \b011 -> Ok([variant |-> "Fld", offset |-> imm_i(c), dest |-> frd(c), base |-> rs1(c)])
      [] OTHER -> Err(c, "LOAD-FP funct3"))

dn_STORE_FP(c, x) ==
    Chk(funct3(c),
    CASE funct3(c) = \b010 -> Ok([variant |-> "Fsw", offset |-> imm_s(c), src |-> frs2(c), base |-> rs1(c)])
      [] funct3(c) = \b011 -> Ok([variant |-> "Fsd", offset |-> imm_s(c), src |-> frs2(c), base |-> rs1(c)])
      [] OTHER -> Err(c, "STORE-FP funct3"))

\* MADD, MSUB, NMSUB, NMADD: the rounding mode first, then fmt (bits 26..25)
\* selects the single (vs) or double (vd) variant
dn_FMA(c, vs, vd, fmt_error) ==
    LET fmt == Num(extract(c, 25, 26))
    IN  Chk(rm(c),
        IF from_rm(rm(c)) = None THEN Err(c, "invalid rounding mode")
        ELSE Chk(fmt,
             CASE fmt = \b00 ->
                    Ok([variant |-> vs, rm |-> from_rm(rm(c)), dest |-> frd(c),
                        src1 |-> frs1(c), src2 |-> frs2(c), src3 |-> frs3(c)])
               [] fmt = \b01 ->
                    Ok([variant |-> vd, rm |-> from_rm(rm(c)), dest |-> frd(c),
                        src1 |-> frs1(c), src2 |-> frs2(c), src3 |-> frs3(c)])
               [] OTHER -> Err(c, fmt_error)))

\* let rm = RoundingMode::from_rm(code.rm()).ok_or_else(|| decode_error(code,
\* "invalid rounding mode"))?; then body
WithRm(c, body) ==
    Chk(rm(c), IF from_rm(rm(c)) = None THEN Err(c, "invalid rounding mode") ELSE body)

\* the operand shapes of OP-FP: in "rm_xf" the variant has a rounding mode, its
\* dest is a Reg (x) field and its src an FReg (f) field, and so on
FpInst(c, v, shape) ==
    CASE shape = "rm3" ->
            Ok([variant |-> v, rm |-> from_rm(rm(c)), dest |-> frd(c), src1 |-> frs1(c), src2 |-> frs2(c)])
      [] shape = "3" -> Ok([variant |-> v, dest |-> frd(c), src1 |-> frs1(c), src2 |-> frs2(c)])
      [] shape = "cmp" -> Ok([variant |-> v, dest |-> rd(c), src1 |-> frs1(c), src2 |-> frs2(c)])
      [] shape = "rm_ff" -> Ok([variant |-> v, rm |-> from_rm(rm(c)), dest |-> frd(c), src |-> frs1(c)])
      [] shape = "rm_xf" -> Ok([variant |-> v, rm |-> from_rm(rm(c)), dest |-> rd(c), src |-> frs1(c)])
      [] shape = "rm_fx" -> Ok([variant |-> v, rm |-> from_rm(rm(c)), dest |-> frd(c), src |-> rs1(c)])
      [] shape = "xf" -> Ok([variant |-> v, dest |-> rd(c), src |-> frs1(c)])
      [] shape = "fx" -> Ok([variant |-> v, dest |-> frd(c), src |-> rs1(c)])

\* OP-FP with fmt = 00
dn_OP_FP_S(c, x) ==
    LET f7 == funct7(c)
        f3 == funct3(c)
        r2 == frs2(c)
    IN  Chk(f7,
        CASE f7 = \b0000000 -> WithRm(c, FpInst(c, "FaddS", "rm3"))
          [] f7 = \b0000100 -> WithRm(c, FpInst(c, "FsubS", "rm3"))
          [] f7 = \b0001000 -> WithRm(c, FpInst(c, "FmulS", "rm3"))
          [] f7 = \b0001100 -> WithRm(c, FpInst(c, "FdivS", "rm3"))
          [] f7 = \b0101100 ->
                Chk(r2, IF r2 # 0 THEN Err(c, "FSQRT.S rs2 must be 0")
                        ELSE WithRm(c, FpInst(c, "FsqrtS", "rm_ff")))
          [] f7 = \b0010000 ->
                Chk(f3, CASE f3 = \b000 -> FpInst(c, "FsgnjS", "3")
                          [] f3 = \b001 -> FpInst(c, "FsgnjnS", "3")
                          [] f3 = \b010 -> FpInst(c, "FsgnjxS", "3")
                          [] OTHER -> Err(c, "FSGNJ.S funct3"))
          [] f7 = \b0010100 ->
                Chk(f3, CASE f3 = \b000 -> FpInst(c, "FminS", "3")
                          [] f3 = \b001 -> FpInst(c, "FmaxS", "3")
                          [] OTHER -> Err(c, "FMIN/FMAX.S funct3"))
          [] f7 = \b1100000 ->
                WithRm(c, Chk(r2,
                CASE r2 = \b00000 -> FpInst(c, "FcvtWS", "rm_xf")
                  [] r2 = \b00001 -> FpInst(c, "FcvtWuS", "rm_xf")
                  [] r2 = \b00010 -> IF is_32(x) THEN Err(c, "FCVT.L.S only on RV64")
                                     ELSE FpInst(c, "FcvtLS", "rm_xf")
                  [] r2 = \b00011 -> IF is_32(x) THEN Err(c, "FCVT.LU.S only on RV64")
                                     ELSE FpInst(c, "FcvtLuS", "rm_xf")
                  [] OTHER -> Err(c, "FCVT.W.S rs2")))
          [] f7 = \b1110000 ->
                Chk(f3, CASE f3 = \b000 -> Chk(r2, IF r2 # 0 THEN Err(c, "FMV.X.W rs2 must be 0")
                                                   ELSE FpInst(c, "FmvXW", "xf"))
                          [] f3 = \b001 -> Chk(r2, IF r2 # 0 THEN Err(c, "FCLASS.S rs2 must be 0")
                                                   ELSE FpInst(c, "FclassS", "xf"))
                          [] OTHER -> Err(c, "FMV.X.W/FCLASS.S funct3"))
          [] f7 = \b1010000 ->
                Chk(f3, CASE f3 = \b010 -> FpInst(c, "FeqS", "cmp")
                          [] f3 = \b001 -> FpInst(c, "FltS", "cmp")
                          [] f3 = \b000 -> FpInst(c, "FleS", "cmp")
                          [] OTHER -> Err(c, "FEQ/FLT/FLE.S funct3"))
          [] f7 = \b1101000 ->
                WithRm(c, Chk(r2,
                CASE r2 = \b00000 -> FpInst(c, "FcvtSW", "rm_fx")
                  [] r2 = \b00001 -> FpInst(c, "FcvtSWu", "rm_fx")
                  [] r2 = \b00010 -> IF is_32(x) THEN Err(c, "FCVT.S.L only on RV64")
                                     ELSE FpInst(c, "FcvtSL", "rm_fx")
                  [] r2 = \b00011 -> IF is_32(x) THEN Err(c, "FCVT.S.LU only on RV64")
                                     ELSE FpInst(c, "FcvtSLu", "rm_fx")
                  [] OTHER -> Err(c, "FCVT.S.W rs2")))
          [] f7 = \b1111000 ->
                Chk(f3, IF f3 # \b000 THEN Err(c, "FMV.W.X funct3")
                        ELSE Chk(r2, IF r2 # 0 THEN Err(c, "FMV.W.X rs2 must be 0")
                                     ELSE FpInst(c, "FmvWX", "fx")))
          [] f7 = \b0100000 ->
                Chk(r2, IF r2 # 1 THEN Err(c, "FCVT.S.D rs2 must be 1")
                        ELSE WithRm(c, FpInst(c, "FcvtSD", "rm_ff")))
          [] OTHER -> Err(c, "OP-FP.S funct7"))

\* OP-FP with fmt = 01
dn_OP_FP_D(c, x) ==
    LET f7 == funct7(c)
        f3 == funct3(c)
        r2 == frs2(c)
    IN  Chk(f7,
        CASE f7 = \b0000001 -> WithRm(c, FpInst(c, "FaddD", "rm3"))
          [] f7 = \b0000101 -> WithRm(c, FpInst(c, "FsubD", "rm3"))
          [] f7 = \b0001001 -> WithRm(c, FpInst(c, "FmulD", "rm3"))
          [] f7 = \b0001101 -> WithRm(c, FpInst(c, "FdivD", "rm3"))
          [] f7 = \b0101101 ->
                Chk(r2, IF r2 # 0 THEN Err(c, "FSQRT.D rs2 must be 0")
                        ELSE WithRm(c, FpInst(c, "FsqrtD", "rm_ff")))
          [] f7 = \b0010001 ->
                Chk(f3, CASE f3 = \b000 -> FpInst(c, "FsgnjD", "3")
                          [] f3 = \b001 -> FpInst(c, "FsgnjnD", "3")
                          [] f3 = \b010 -> FpInst(c, "FsgnjxD", "3")
                          [] OTHER -> Err(c, "FSGNJ.D funct3"))
          [] f7 = \b0010101 ->
                Chk(f3, CASE f3 = \b000 -> FpInst(c, "FminD", "3")
                          [] f3 = \b001 -> FpInst(c, "FmaxD", "3")
                          [] OTHER -> Err(c, "FMIN/FMAX.D funct3"))
          [] f7 = \b0100001 ->
                Chk(r2, IF r2 # 0 THEN Err(c, "FCVT.D.S rs2 must be 0")
                        ELSE WithRm(c, FpInst(c, "FcvtDS", "rm_ff")))
          [] f7 = \b1010001 ->
                Chk(f3, CASE f3 = \b010 -> FpInst(c, "FeqD", "cmp")
                          [] f3 = \b001 -> FpInst(c, "FltD", "cmp")
                          [] f3 = \b000 -> FpInst(c, "FleD", "cmp")
                          [] OTHER -> Err(c, "FEQ/FLT/FLE.D funct3"))
          [] f7 = \b1110001 ->
                Chk(f3, CASE f3 = \b000 /\ is_64(x) ->
                                Chk(r2, IF r2 # 0 THEN Err(c, "FMV.X.D rs2 must be 0")
                                        ELSE FpInst(c, "FmvXD", "xf"))
                          [] f3 = \b001 ->
                                Chk(r2, IF r2 # 0 THEN Err(c, "FCLASS.D rs2 must be 0")
                                        ELSE FpInst(c, "FclassD", "xf"))
                          [] OTHER -> Err(c, "0b1110001 funct3"))
          [] f7 = \b1100001 ->
                WithRm(c, Chk(r2,
                CASE r2 = \b00000 -> FpInst(c, "FcvtWD", "rm_xf")
                  [] r2 = \b00001 -> FpInst(c, "FcvtWuD", "rm_xf")
                  [] r2 = \b00010 -> IF is_32(x) THEN Err(c, "FCVT.L.D only on RV64")
                                     ELSE FpInst(c, "FcvtLD", "rm_xf")
                  [] r2 = \b00011 -> IF is_32(x) THEN Err(c, "FCVT.LU.D only on RV64")
                                     ELSE FpInst(c, "FcvtLuD", "rm_xf")
                  [] OTHER -> Err(c, "FCVT.W.D rs2")))
          [] f7 = \b1101001 ->
                WithRm(c, Chk(r2,
                CASE r2 = \b00000 -> FpInst(c, "FcvtDW", "rm_fx")
                  [] r2 = \b00001 -> FpInst(c, "FcvtDWu", "rm_fx")
                  [] r2 = \b00010 -> IF is_32(x) THEN Err(c, "FCVT.D.L only on RV64")
                                     ELSE FpInst(c, "FcvtDL", "rm_fx")
                  [] r2 = \b00011 -> IF is_32(x) THEN Err(c, "FCVT.D.LU only on RV64")
                                     ELSE FpInst(c, "FcvtDLu", "rm_fx")
                  [] OTHER -> Err(c, "FCVT.D.W rs2")))
          [] f7 = \b1111001 /\ is_64(x) ->
                Chk(f3, IF f3 # \b000 THEN Err(c, "FMV.D.X funct3")
                        ELSE Chk(r2, IF r2 # 0 THEN Err(c, "FMV.D.X rs2 must be 0")
                                     ELSE FpInst(c, "FmvDX", "fx")))
          [] OTHER -> Err(c, "OP-FP.D funct7"))

dn_OP_FP(c, x) ==
    LET fmt == Num(extract(c, 25, 26))
    IN  Chk(fmt,
        CASE fmt = \b00 -> dn_OP_FP_S(c, x)
          [] fmt = \b01 -> dn_OP_FP_D(c, x)
          [] OTHER -> Err(c, "OP-FP fmt"))

\* Inst::decode_normal
decode_normal(c, x) ==
    LET op == opcode(c)
    IN  CASE op = \b0110111 -> Ok([variant |-> "Lui", uimm |-> imm_u(c), dest |-> rd(c)])
          [] op = \b0010111 -> Ok([variant |-> "Auipc", uimm |-> imm_u(c), dest |-> rd(c)])
          [] op = \b1101111 -> Ok([variant |-> "Jal", offset |-> imm_j(c), dest |-> rd(c)])
          [] op = \b1100111 -> dn_JALR(c, x)
          [] op = \b1100011 -> dn_BRANCH(c, x)
          [] op = \b0000011 -> dn_LOAD(c, x)
          [] op = \b0100011 -> dn_STORE(c, x)
          [] op = \b0010011 -> dn_OP_IMM(c, x)
          [] op = \b0011011 -> dn_OP_IMM_32(c, x)
          [] op = \b0110011 -> dn_OP(c, x)
          [] op = \b0111011 -> dn_OP_32(c, x)
          [] op = \b0001111 -> dn_MISC_MEM(c, x)
          [] op = \b1110011 -> dn_SYSTEM(c, x)
          [] op = \b00101111 -> dn_AMO(c, x)
          [] op = \b0000111 -> dn_LOAD_FP(c, x)
          [] op = \b0100111 -> dn_STORE_FP(c, x)
          [] op = \b1000011 -> dn_FMA(c, "FmaddS", "FmaddD", "MADD fmt")
          [] op = \b1000111 -> dn_FMA(c, "FmsubS", "FmsubD", "MSUB fmt")
          [] op = \b1001011 -> dn_FMA(c, "FnmsubS", "FnmsubD", "NMSUB fmt")
          [] op = \b1001111 -> dn_FMA(c, "FnmaddS", "FnmaddD", "NMADD fmt")
          [] op = \b1010011 -> dn_OP_FP(c, x)
          [] OTHER -> Err(c, "opcode")

-----------------------------------------------------------------------------
(* InstCodeC: the 16-bit kernel and Inst::decode_compressed.               *)

Reg_ZERO == 0
Reg_RA == 1
Reg_SP == 2

\* InstCodeC::extract: end_span = u16::BITS - (end + 1);
\* ((self.0 << end_span) >> (end_span + start)) as u32, the shifts being u16 shifts
c_extract(c, start, end) ==
    IF end + 1 > 16 \/ 16 - (end + 1) >= 16 \/ (16 - (end + 1)) + start >= 16
    THEN PANIC_BITS
    ELSE U16AsU32(Shr16(Shl16(c, 16 - (end + 1)), (16 - (end + 1)) + start))

\* the loop of InstCodeC::immediate_u / immediate_s over the first k mappings;
\* asserting is TRUE for immediate_s, which has assert!(from.start() <= from.end())
RECURSIVE c_gather(_, _, _, _)
c_gather(c, mappings, k, asserting) ==
    IF k = 0 THEN FromNat(0)
    ELSE LET imm == c_gather(c, mappings, k - 1, asserting)
             value == c_extract(c, mappings[k][1], mappings[k][2])
         IN  IF imm = PANIC_BITS \/ value = PANIC_BITS \/ mappings[k][3] >= 32
                \/ (asserting /\ mappings[k][1] > mappings[k][2])
             THEN PANIC_BITS
             ELSE BitOr(imm, Shl(value, mappings[k][3]))

\* InstCodeC::immediate_u
c_immediate_u(c, mappings) == new_u32_of(c_gather(c, mappings, Len(mappings), FALSE))

\* a faulty InstCodeC::immediate_s that zero-extends the 32-bit value
c_immediate_s_zext(c, mappings) ==
    new_u32_of(sign_extend(c_gather(c, mappings, Len(mappings), TRUE),
                           imm_size(mappings, Len(mappings))))

\* InstCodeC::immediate_s
c_immediate_s(c, mappings) ==
    LET v == sign_extend(c_gather(c, mappings, Len(mappings), TRUE),
                         imm_size(mappings, Len(mappings)))
    IN  IF v = PANIC_BITS THEN PANIC_BITS ELSE new_i32(v)

\* a faulty quadrant that looks at the lowest bit only
quadrant_1bit(c) == c[0]

\* InstCodeC::quadrant: self.0 & 0b11
quadrant(c) == c[0] + 2 * c[1]
c_funct3(c) == Num(c_extract(c, 13, 15))
\* a faulty funct2 that reads bit 12 as well
c_funct2_3bits(c) == Num(c_extract(c, 10, 12))
c_funct2(c) == Num(c_extract(c, 10, 11))
c_rd(c) == AsU8(Num(c_extract(c, 7, 11)))
c_rs2(c) == AsU8(Num(c_extract(c, 2, 6)))
\* a faulty rs1_short that leaves the field unmapped
rs1_short_raw(c) == Num(c_extract(c, 7, 9))

\* Reg((smol_reg + 8) as u8)
rs1_short(c) ==
    LET smol_reg == Num(c_extract(c, 7, 9)) IN IF smol_reg = PANIC THEN PANIC ELSE AsU8(smol_reg + 8)
rs2_short(c) ==
    LET smol_reg == Num(c_extract(c, 2, 4)) IN IF smol_reg = PANIC THEN PANIC ELSE AsU8(smol_reg + 8)

\* a faulty conversion that sign-extends
from_InstCodeC_sext(c) == [i \in 0..31 |-> IF i <= 15 THEN c[i] ELSE c[15]]

\* impl From<InstCodeC> for InstCode: value.0 as u32
from_InstCodeC(c) == U16AsU32(c)

\* decode_error(code, field) for an InstCodeC
ErrC(c, field) == Err(from_InstCodeC(c), field)

\* Imm::as_u32() == 0, for an operand that may have panicked
imm_is_zero(imm) == imm # PANIC_BITS /\ as_u32(imm) = FromNat(0)

\* quadrant 00
dc_C0(c, x) ==
    LET f3 == c_funct3(c)
    IN  Chk(f3,
        CASE f3 = \b000 ->
                LET imm == c_immediate_u(c, << <<5, 5, 3>>, <<6, 6, 2>>, <<7, 10, 6>>, <<11, 12, 4>> >>)
                IN  IF imm_is_zero(imm) THEN ErrC(c, "uimm=0 for C.ADDISPN is reserved")
                    ELSE Ok([variant |-> "Addi", imm |-> imm, dest |-> rs2_short(c), src1 |-> Reg_SP])
          [] f3 = \b010 ->
                Ok([variant |-> "Lw", offset |-> c_immediate_u(c, << <<10, 12, 3>>, <<5, 5, 6>>, <<6, 6, 2>> >>),
                    dest |-> rs2_short(c), base |-> rs1_short(c)])
          [] f3 = \b110 ->
                Ok([variant |-> "Sw", offset |-> c_immediate_u(c, << <<10, 12, 3>>, <<5, 5, 6>>, <<6, 6, 2>> >>),
                    src |-> rs2_short(c), base |-> rs1_short(c)])
          [] OTHER -> ErrC(c, "C0 funct3"))

\* quadrant 01, funct3 = 100: the arithmetic instructions
dc_C1_arith(c, x) ==
    LET bit12 == Num(c_extract(c, 12, 12))
        f2 == c_funct2(c)
        funct2 == Num(c_extract(c, 5, 6))
        RR(v) == Ok([variant |-> v, dest |-> rs1_short(c), src1 |-> rs1_short(c), src2 |-> rs2_short(c)])
        RI(v) == Ok([variant |-> v, imm |-> c_immediate_u(c, << <<2, 6, 0>>, <<12, 12, 5>> >>),
                     dest |-> rs1_short(c), src1 |-> rs1_short(c)])
    IN  Chk(bit12, Chk(f2,
        CASE f2 = \b00 -> IF bit12 # 0 THEN ErrC(c, "C.SRLI imm") ELSE RI("Srli")
          [] f2 = \b01 -> IF bit12 # 0 THEN ErrC(c, "C.SRLI imm") ELSE RI("Srai")
          [] f2 = \b10 -> RI("Andi")
          [] f2 = \b11 ->
                IF bit12 # 0 THEN ErrC(c, "C1 Arith bit 12")
                ELSE Chk(funct2,
                     CASE funct2 = \b00 -> RR("Sub")
                       [] funct2 = \b01 -> RR("Xor")
                       [] funct2 = \b10 -> RR("Or")
                       [] funct2 = \b11 -> RR("And")
                       [] OTHER -> PanicResult)
          [] OTHER -> PanicResult))

\* quadrant 01
dc_C1(c, x) ==
    LET f3 == c_funct3(c)
    IN  Chk(f3,
        CASE f3 = \b000 ->
                Ok([variant |-> "Addi", imm |-> c_immediate_s(c, << <<2, 6, 0>>, <<12, 12, 5>> >>), dest |-> c_rd(c), src1 |-> c_rd(c)])
          [] f3 = \b001 ->
                Ok([variant |-> "Jal", offset |-> c_immediate_s(c, << <<2, 2, 5>>, <<3, 5, 1>>, <<6, 6, 7>>, <<7, 7, 6>>, <<8, 8, 10>>, <<9, 10, 8>>, <<11, 11, 4>>, <<12, 12, 11>> >>), dest |-> Reg_RA])
          [] f3 = \b010 ->
                Ok([variant |-> "Addi", imm |-> c_immediate_s(c, << <<2, 6, 0>>, <<12, 12, 5>> >>), dest |-> c_rd(c), src1 |-> Reg_ZERO])
          [] f3 = \b100 -> dc_C1_arith(c, x)
          [] f3 = \b101 ->
                Ok([variant |-> "Jal", offset |-> c_immediate_s(c, << <<2, 2, 5>>, <<3, 5, 1>>, <<6, 6, 7>>, <<7, 7, 6>>, <<8, 8, 10>>, <<9, 10, 8>>, <<11, 11, 4>>, <<12, 12, 11>> >>), dest |-> Reg_ZERO])
          [] f3 = \b011 ->
                Chk(c_rd(c),
                IF c_rd(c) = 2
                THEN Ok([variant |-> "Addi", imm |-> c_immediate_s(c, << <<2, 2, 5>>, <<3, 4, 7>>, <<5, 5, 6>>, <<6, 6, 4>>, <<12, 12, 9>> >>),
                         dest |-> Reg_SP, src1 |-> Reg_SP])
                ELSE LET uimm == c_immediate_s(c, << <<2, 6, 12>>, <<12, 12, 17>> >>)
                     IN  IF imm_is_zero(uimm) THEN ErrC(c, "C.LUI zero immediate")
                         ELSE Ok([variant |-> "Lui", uimm |-> uimm, dest |-> c_rd(c)]))
          [] f3 = \b110 ->
                Ok([variant |-> "Beq", offset |-> c_immediate_s(c, << <<2, 2, 5>>, <<3, 4, 1>>, <<5, 6, 6>>, <<10, 11, 3>>, <<12, 12, 8>> >>),
                    src1 |-> rs1_short(c), src2 |-> Reg_ZERO])
          [] f3 = \b111 ->
                Ok([variant |-> "Bne", offset |-> c_immediate_s(c, << <<2, 2, 5>>, <<3, 4, 1>>, <<5, 6, 6>>, <<10, 11, 3>>, <<12, 12, 8>> >>),
                    src1 |-> rs1_short(c), src2 |-> Reg_ZERO])
          [] OTHER -> ErrC(c, "C1 funct3"))

\* quadrant 10, funct3 = 100: match (bit, rd_rs1.0, rs2.0)
dc_C2_100(c, x) ==
    LET bit == Num(c_extract(c, 12, 12))
        r2 == c_rs2(c)
        rd_rs1 == c_rd(c)
    IN  Chk(bit, Chk(r2, Chk(rd_rs1,
        CASE bit = 0 /\ r2 = 0 ->
                IF rd_rs1 = 0 THEN ErrC(c, "C.JR rs1 must not be zero")
                ELSE Ok([variant |-> "Jalr", offset |-> ImmZERO, base |-> rd_rs1, dest |-> Reg_ZERO])
          [] bit = 0 /\ r2 # 0 ->
                Ok([variant |-> "Add", dest |-> c_rd(c), src1 |-> Reg_ZERO, src2 |-> c_rs2(c)])
          [] bit = 1 /\ rd_rs1 = 0 /\ r2 = 0 -> Ok([variant |-> "Ebreak"])
          [] bit = 1 /\ rd_rs1 # 0 /\ r2 = 0 ->
                Ok([variant |-> "Jalr", offset |-> ImmZERO, base |-> rd_rs1, dest |-> Reg_RA])
          [] bit = 1 /\ r2 # 0 ->
                Ok([variant |-> "Add", dest |-> rd_rs1, src1 |-> rd_rs1, src2 |-> r2])
          [] OTHER -> ErrC(c, "C2 funct=100 inst"))))

\* quadrant 10
dc_C2(c, x) ==
    LET f3 == c_funct3(c)
    IN  Chk(f3,
        CASE f3 = \b000 ->
                Chk(Num(c_extract(c, 12, 12)),
                IF Num(c_extract(c, 12, 12)) # 0 THEN ErrC(c, "C.SLLI shift amount must be zero")
                ELSE Ok([variant |-> "Slli", imm |-> c_immediate_u(c, << <<2, 6, 0>>, <<12, 12, 5>> >>),
                         dest |-> c_rd(c), src1 |-> c_rd(c)]))
          [] f3 = \b010 ->
                Chk(c_rd(c),
                IF c_rd(c) = 0 THEN ErrC(c, "C.LWSP rd must not be zero")
                ELSE Ok([variant |-> "Lw", offset |-> c_immediate_u(c, << <<12, 12, 5>>, <<4, 6, 2>>, <<2, 3, 6>> >>),
                         dest |-> c_rd(c), base |-> Reg_SP]))
          [] f3 = \b011 ->
                IF is_32(x) THEN ErrC(c, "C.LDSP is not allowed on RV32")
                ELSE Chk(c_rd(c),
                     IF c_rd(c) = 0 THEN ErrC(c, "C.LWSP rd must not be zero")
                     ELSE Ok([variant |-> "Ld", offset |-> c_immediate_u(c, << <<12, 12, 5>>, <<4, 6, 2>>, <<2, 3, 6>> >>),
                              dest |-> c_rd(c), base |-> Reg_SP]))
          [] f3 = \b100 -> dc_C2_100(c, x)
          [] f3 = \b110 ->
                Ok([variant |-> "Sw", offset |-> c_immediate_u(c, << <<7, 8, 6>>, <<9, 12, 2>> >>),
                    src |-> c_rs2(c), base |-> Reg_SP])
          [] f3 = \b111 ->
                IF is_32(x) THEN ErrC(c, "C.SDSP is not allowed on RV32")
                ELSE Ok([variant |-> "Sd", offset |-> c_immediate_u(c, << <<7, 9, 6>>, <<10, 12, 3>> >>),
                         src |-> c_rs2(c), base |-> Reg_SP])
          [] OTHER -> ErrC(c, "C2 funct3"))

\* Inst::decode_compressed
decode_compressed(c, x) ==
    IF c = FromNat16(0) THEN ErrC(c, "null instruction")
    ELSE CASE quadrant(c) = \b00 -> dc_C0(c, x)
           [] quadrant(c) = \b01 -> dc_C1(c, x)
           [] quadrant(c) = \b10 -> dc_C2(c, x)
           [] OTHER -> ErrC(c, "instruction is not compressed")

\* a faulty first_byte_is_compressed that looks at the lowest bit only
first_byte_is_compressed_1bit(byte) == (byte % 2) # 1

\* Inst::first_byte_is_compressed: (byte & 0b11) != 0b11, the byte a number 0..255
first_byte_is_compressed(byte) == (byte % 4) # \b11

\* Inst::decode: a compressed result is tagged Yes, an uncompressed one No
Tagged(r, is_compressed) ==
    IF r.tag = "Ok" THEN [tag |-> "Ok", inst |-> r.inst, is_compressed |-> is_compressed] ELSE r

decode(c, x) ==
    LET is_compressed == BitAnd(c, FromNat(\b11)) # FromNat(\b11)
    IN  IF is_compressed
        THEN Tagged(decode_compressed(AsU16(c), x), "Yes")
        ELSE Tagged(decode_normal(c, x), "No")

-----------------------------------------------------------------------------
(* Inst::encode_normal. The macros of the function are operators on the    *)
(* code built so far; the per-variant constants are tables.                *)

\* let code = InstCode(0)
code0 == FromNat(0)

BRANCH(a, offset, src1, src2) ==
    with_rs2(with_rs1(with_imm_b(with_opcode(a, \b1100011), offset), src1), src2)
LOAD(a, offset, src1, dest) ==
    with_rd(with_rs1(with_imm_i(with_opcode(a, \b0000011), offset), src1), dest)
STORE(a, offset, src1, src2) ==
    with_rs2(with_rs1(with_imm_s(with_opcode(a, \b0100011), offset), src1), src2)
OP_IMM(a, offset, src1, dest) ==
    with_rd(with_rs1(with_imm_i(with_opcode(a, \b0010011), offset), src1), dest)
OP_IMM_32(a, offset, src1, dest) ==
    with_rd(with_rs1(with_imm_i(with_opcode(a, \b0011011), offset), src1), dest)
OP(a, src1, src2, dest) ==
    with_rd(with_rs1(with_rs2(with_opcode(a, \b0110011), src2), src1), dest)
OP_32(a, src1, src2, dest) ==
    with_rd(with_rs1(with_rs2(with_opcode(a, \b0111011), src2), src1), dest)

\* Srli / Srai: OP_IMM!, funct3 101, the funct7, then the shift amount by xlen
en_shift(i, x, f7) ==
    LET a == with_funct7(with_funct3(OP_IMM(code0, i.imm, i.src1, i.dest), \b101), f7)
    IN  IF x = "Rv32" THEN with_rs2_imm(a, as_u32(i.imm))
        ELSE with_rs2_imm_plus(a, as_u32(i.imm))

\* SrliW / SraiW
en_shiftW(i, f7) ==
    with_rs2_imm(with_funct7(with_funct3(OP_IMM_32(code0, i.imm, i.src1, i.dest), \b101), f7),
                 as_u32(i.imm))

\* a faulty if b { 1 } else { 0 } that is always 0
b2u_zero(b) == FromNat(0)

\* if b { 1 } else { 0 }
b2u(b) == FromNat(IF b THEN 1 ELSE 0)

\* Inst::Fence: fm into 31..28, rd, rs1, then the eight set bits 27..20
en_fence(fence) ==
    LET v0 == with_rs1(with_rd(insert(with_opcode(code0, \b0001111), 28, 31, FromNat(fence.fm)),
                               fence.dest), fence.src)
        v1 == insert(v0, 27, 27, b2u(fence.pred.device_input))
        v2 == insert(v1, 26, 26, b2u(fence.pred.device_output))
        v3 == insert(v2, 25, 25, b2u(fence.pred.memory_read))
        v4 == insert(v3, 24, 24, b2u(fence.pred.memory_write))
        v5 == insert(v4, 23, 23, b2u(fence.succ.device_input))
        v6 == insert(v5, 22, 22, b2u(fence.succ.device_output))
        v7 == insert(v6, 21, 21, b2u(fence.succ.memory_read))
    IN  insert(v7, 20, 20, b2u(fence.succ.memory_write))

\* the common head of LrW / ScW / AmoW: opcode, funct3 010, aq into 26, rl into 25
en_amo_head(order) ==
    insert(insert(with_funct3(with_opcode(code0, \b00101111), \b010),
                  26, 26, b2u(aq_rl(order)[1])),
           25, 25, b2u(aq_rl(order)[2]))

\* the integer, fence, atomic and Zicsr variants
en_base(i, x) ==
    LET v == i.variant
        \* the funct3 each variant is given
        BranchF3 == [Beq |-> \b000, Bne |-> \b001, Blt |-> \b100, Bge |-> \b101,
                     Bltu |-> \b110, Bgeu |-> \b111]
        LoadF3 == [Lb |-> \b000, Lbu |-> \b100, Lh |-> \b001, Lhu |-> \b101, Lw |-> \b010,
                   Lwu |-> \b110, Ld |-> \b011]
        StoreF3 == [Sb |-> \b000, Sh |-> \b001, Sw |-> \b010, Sd |-> \b011]
        OpImmF3 == [Addi |-> \b000, Slti |-> \b010, Sltiu |-> \b011, Xori |-> \b100,
                    Ori |-> \b110, Andi |-> \b111, Slli |-> \b001]
        OpImm32F3 == [AddiW |-> \b000, SlliW |-> \b001]
        \* <<funct3, funct7>> of the OP! and OP_32! variants
        OpF == [Add |-> <<\b000, \b0000000>>, Sub |-> <<\b000, \b0100000>>,
                Sll |-> <<\b001, \b0000000>>, Slt |-> <<\b010, \b0000000>>,
                Sltu |-> <<\b011, \b0000000>>, Xor |-> <<\b100, \b0000000>>,
                Srl |-> <<\b101, \b0000000>>, Sra |-> <<\b101, \b0100000>>,
                Or |-> <<\b110, \b0000000>>, And |-> <<\b111, \b0000000>>,
                Mul |-> <<\b000, \b0000001>>, Mulh |-> <<\b001, \b0000001>>,
                Mulhsu |-> <<\b010, \b0000001>>, Mulhu |-> <<\b011, \b0000001>>,
                Div |-> <<\b100, \b0000001>>, Divu |-> <<\b101, \b0000001>>,
                Rem |-> <<\b110, \b0000001>>, Remu |-> <<\b111, \b0000001>>]
        Op32F == [AddW |-> <<\b000, \b0000000>>, SubW |-> <<\b000, \b0100000>>,
                  SllW |-> <<\b001, \b0000000>>, SrlW |-> <<\b101, \b0000000>>,
                  SraW |-> <<\b101, \b0100000>>, MulW |-> <<\b000, \b0000001>>,
                  DivW |-> <<\b100, \b0000001>>, DivuW |-> <<\b101, \b0000001>>,
                  RemW |-> <<\b110, \b0000001>>, RemuW |-> <<\b111, \b0000001>>]
        \* the bits 31..27 of each AmoOp
        AmoKind == [Swap |-> \b00001, Add |-> \b00000, Xor |-> \b00100, And |-> \b01100,
                    Or |-> \b01000, Min |-> \b10000, Max |-> \b10100, Minu |-> \b11000,
                    Maxu |-> \b11100]
        CsrF3 == [Csrrw |-> \b001, Csrrs |-> \b010, Csrrc |-> \b011]
        CsrImmF3 == [Csrrwi |-> \b101, Csrrsi |-> \b110, Csrrci |-> \b111]
    IN  CASE v = "Lui" -> with_imm_u(with_rd(with_opcode(code0, \b0110111), i.dest), i.uimm)
          [] v = "Auipc" -> with_imm_u(with_rd(with_opcode(code0, \b0010111), i.dest), i.uimm)
          [] v = "Jal" -> with_rd(with_imm_j(with_opcode(code0, \b1101111), i.offset), i.dest)
          [] v = "Jalr" ->
                with_rd(with_rs1(with_imm_i(with_funct3(with_opcode(code0, \b1100111), \b000),
                                            i.offset), i.base), i.dest)
          [] v \in DOMAIN BranchF3 ->
                with_funct3(BRANCH(code0, i.offset, i.src1, i.src2), BranchF3[v])
          [] v \in DOMAIN LoadF3 -> with_funct3(LOAD(code0, i.offset, i.base, i.dest), LoadF3[v])
          [] v \in DOMAIN StoreF3 -> with_funct3(STORE(code0, i.offset, i.base, i.src), StoreF3[v])
          [] v \in DOMAIN OpImmF3 -> with_funct3(OP_IMM(code0, i.imm, i.src1, i.dest), OpImmF3[v])
          [] v \in DOMAIN OpImm32F3 ->
                with_funct3(OP_IMM_32(code0, i.imm, i.src1, i.dest), OpImm32F3[v])
          [] v = "Srli" -> en_shift(i, x, \b0000000)
          [] v = "Srai" -> en_shift(i, x, \b0100000)
          [] v = "SrliW" -> en_shiftW(i, \b0000000)
          [] v = "SraiW" -> en_shiftW(i, \b0100000)
          [] v \in DOMAIN OpF ->
                with_funct7(with_funct3(OP(code0, i.src1, i.src2, i.dest), OpF[v][1]), OpF[v][2])
          [] v \in DOMAIN Op32F ->
                with_funct7(with_funct3(OP_32(code0, i.src1, i.src2, i.dest), Op32F[v][1]),
                            Op32F[v][2])
          [] v = "Fence" -> en_fence(i.fence)
          [] v = "Ecall" ->
                with_imm_i(with_opcode(code0, \b1110011), new_u32(FromNat(\b000000000000)))
          [] v = "Ebreak" ->
                with_imm_i(with_opcode(code0, \b1110011), new_u32(FromNat(\b000000000001)))
          [] v = "LrW" ->
                with_rs1(with_rd(insert(en_amo_head(i.order), 27, 31, FromNat(\b00010)), i.dest),
                         i.addr)
          [] v = "ScW" ->
                with_rs2(with_rs1(with_rd(insert(en_amo_head(i.order), 27, 31, FromNat(\b00011)),
                                          i.dest), i.addr), i.src)
          [] v = "AmoW" ->
                insert(with_rs2(with_rs1(with_rd(en_amo_head(i.order), i.dest), i.addr), i.src),
                       27, 31, FromNat(AmoKind[i.op]))
          [] v \in DOMAIN CsrF3 ->
                with_rs1(with_rd(with_csr(with_funct3(with_opcode(code0, \b1110011), CsrF3[v]),
                                          i.csr), i.dest), i.src)
          [] v \in DOMAIN CsrImmF3 ->
                with_zimm(with_rd(with_csr(with_funct3(with_opcode(code0, \b1110011), CsrImmF3[v]),
                                           i.csr), i.dest), i.uimm)

\* code.with_opcode(0b1010011).with_funct7(f7)
en_op_fp(f7) == with_funct7(with_opcode(code0, \b1010011), f7)

\* Inst::encode_normal: code.0 of the code the match builds; the arms of the F and
\* D variants are here, the others in en_base
encode_normal(i, x) ==
    LET v == i.variant
        \* <<opcode, fmt>> of the fused multiply-add variants
        FmaF == [FmaddS |-> <<\b1000011, \b00>>, FmsubS |-> <<\b1000111, \b00>>,
                 FnmsubS |-> <<\b1001011, \b00>>, FnmaddS |-> <<\b1001111, \b00>>,
                 FmaddD |-> <<\b1000011, \b01>>, FmsubD |-> <<\b1000111, \b01>>,
                 FnmsubD |-> <<\b1001011, \b01>>, FnmaddD |-> <<\b1001111, \b01>>]
        \* funct7 of { rm, dest: FReg, src1: FReg, src2: FReg }
        FpArithF7 == [FaddS |-> \b0000000, FsubS |-> \b0000100, FmulS |-> \b0001000,
                      FdivS |-> \b0001100, FaddD |-> \b0000001, FsubD |-> \b0000101,
                      FmulD |-> \b0001001, FdivD |-> \b0001101]
        \* <<funct7, funct3>> of { dest: FReg, src1: FReg, src2: FReg }
        FpSgnF == [FsgnjS |-> <<\b0010000, \b000>>, FsgnjnS |-> <<\b0010000, \b001>>,
                   FsgnjxS |-> <<\b0010000, \b010>>, FminS |-> <<\b0010100, \b000>>,
                   FmaxS |-> <<\b0010100, \b001>>, FsgnjD |-> <<\b0010001, \b000>>,
                   FsgnjnD |-> <<\b0010001, \b001>>, FsgnjxD |-> <<\b0010001, \b010>>,
                   FminD |-> <<\b0010101, \b000>>, FmaxD |-> <<\b0010101, \b001>>]
        \* <<funct7, funct3>> of { dest: Reg, src1: FReg, src2: FReg }
        FpCmpF == [FeqS |-> <<\b1010000, \b010>>, FltS |-> <<\b1010000, \b001>>,
                   FleS |-> <<\b1010000, \b000>>, FeqD |-> <<\b1010001, \b010>>,
                   FltD |-> <<\b1010001, \b001>>, FleD |-> <<\b1010001, \b000>>]
        \* <<funct7, the FReg written to rs2>> of { rm, dest: FReg, src: FReg }
        FpFFF == [FsqrtS |-> <<\b0101100, 0>>, FsqrtD |-> <<\b0101101, 0>>,
                  FcvtSD |-> <<\b0100000, 1>>, FcvtDS |-> <<\b0100001, 0>>]
        \* <<funct7, the FReg written to rs2>> of { rm, dest: Reg, src: FReg }
        FpXFF == [FcvtWS |-> <<\b1100000, 0>>, FcvtWuS |-> <<\b1100000, 1>>,
                  FcvtLS |-> <<\b1100000, 2>>, FcvtLuS |-> <<\b1100000, 3>>,
                  FcvtWD |-> <<\b1100001, 0>>, FcvtWuD |-> <<\b1100001, 1>>,
                  FcvtLD |-> <<\b1100001, 2>>, FcvtLuD |-> <<\b1100001, 3>>]
        \* <<funct7, the FReg written to rs2>> of { rm, dest: FReg, src: Reg }
        FpFXF == [FcvtSW |-> <<\b1101000, 0>>, FcvtSWu |-> <<\b1101000, 1>>,
                  FcvtSL |-> <<\b1101000, 2>>, FcvtSLu |-> <<\b1101000, 3>>,
                  FcvtDW |-> <<\b1101001, 0>>, FcvtDWu |-> <<\b1101001, 1>>,
                  FcvtDL |-> <<\b1101001, 2>>, FcvtDLu |-> <<\b1101001, 3>>]
        \* <<funct7, funct3>> of { dest: Reg, src: FReg }, rs2 written as FReg(0)
        FpMvXF == [FmvXW |-> <<\b1110000, \b000>>, FclassS |-> <<\b1110000, \b001>>,
                   FclassD |-> <<\b1110001, \b001>>, FmvXD |-> <<\b1110001, \b000>>]
        \* <<funct7, funct3>> of { dest: FReg, src: Reg }, rs2 written as FReg(0)
        FpMvFX == [FmvWX |-> <<\b1111000, \b000>>, FmvDX |-> <<\b1111001, \b000>>]
    IN  CASE v = "Flw" ->
                with_rs1(with_frd(with_imm_i(with_funct3(with_opcode(code0, \b0000111), \b010),
                                             i.offset), i.dest), i.base)
          [] v = "Fld" ->
                with_rs1(with_frd(with_imm_i(with_funct3(with_opcode(code0, \b0000111), \b011),
                                             i.offset), i.dest), i.base)
          [] v = "Fsw" ->
                with_rs1(with_frs2(with_imm_s(with_funct3(with_opcode(code0, \b0100111), \b010),
                                              i.offset), i.src), i.base)
          [] v = "Fsd" ->
                with_rs1(with_frs2(with_imm_s(with_funct3(with_opcode(code0, \b0100111), \b011),
                                              i.offset), i.src), i.base)
          [] v \in DOMAIN FmaF ->
                insert(with_frs3(with_frs2(with_frs1(with_frd(with_rm(with_opcode(code0, FmaF[v][1]),
                       to_rm(i.rm)), i.dest), i.src1), i.src2), i.src3),
                       25, 26, FromNat(FmaF[v][2]))
          [] v \in DOMAIN FpArithF7 ->
                with_frs2(with_frs1(with_frd(with_rm(en_op_fp(FpArithF7[v]), to_rm(i.rm)),
                                             i.dest), i.src1), i.src2)
          [] v \in DOMAIN FpSgnF ->
                with_frs2(with_frs1(with_frd(with_funct3(en_op_fp(FpSgnF[v][1]), FpSgnF[v][2]),
                                             i.dest), i.src1), i.src2)
          [] v \in DOMAIN FpCmpF ->
                with_frs2(with_frs1(with_rd(with_funct3(en_op_fp(FpCmpF[v][1]), FpCmpF[v][2]),
                                            i.dest), i.src1), i.src2)
          [] v \in DOMAIN FpFFF ->
                with_frs2(with_frs1(with_frd(with_rm(en_op_fp(FpFFF[v][1]), to_rm(i.rm)),
                                             i.dest), i.src), FpFFF[v][2])
          [] v \in DOMAIN FpXFF ->
                with_frs2(with_frs1(with_rd(with_rm(en_op_fp(FpXFF[v][1]), to_rm(i.rm)),
                                            i.dest), i.src), FpXFF[v][2])
          [] v \in DOMAIN FpFXF ->
                with_frs2(with_rs1(with_frd(with_rm(en_op_fp(FpFXF[v][1]), to_rm(i.rm)),
                                            i.dest), i.src), FpFXF[v][2])
          [] v \in DOMAIN FpMvXF ->
                with_frs2(with_frs1(with_rd(with_funct3(en_op_fp(FpMvXF[v][1]), FpMvXF[v][2]),
                                            i.dest), i.src), 0)
          [] v \in DOMAIN FpMvFX ->
                with_frs2(with_rs1(with_frd(with_funct3(en_op_fp(FpMvFX[v][1]), FpMvFX[v][2]),
                                            i.dest), i.src), 0)
          [] OTHER -> en_base(i, x)

-----------------------------------------------------------------------------
(* The words the callers hand to the decoders. The decoders take any u32 / *)
(* u16 (the test exhaustive_decode_no_panic walks all of them); the model  *)
(* draws them from families that reach every arm of every match.          *)

\* how far the sampled register numbers go
RegBound == 1
\* how many patterns of the ignored upper half decode() is tried with
HiBound == 2

\* bit k of the number n
BitOf(n, k) == (n \div (2 ^ k)) % 2

\* the u32 with the given opcode, rd, funct3, rs1, rs2 and funct7 fields
Word(op, d, f3, s1, s2, f7) ==
    [i \in 0..31 |->
        IF i <= 6 THEN BitOf(op, i)
        ELSE IF i <= 11 THEN BitOf(d, i - 7)
        ELSE IF i <= 14 THEN BitOf(f3, i - 12)
        ELSE IF i <= 19 THEN BitOf(s1, i - 15)
        ELSE IF i <= 24 THEN BitOf(s2, i - 20)
        ELSE BitOf(f7, i - 25)]

\* the u16 with the given quadrant, bits 6..2, bits 11..7, bit 12 and funct3
Word16(q, lo, hi, b12, f3) ==
    [i \in 0..15 |->
        IF i <= 1 THEN BitOf(q, i)
        ELSE IF i <= 6 THEN BitOf(lo, i - 2)
        ELSE IF i <= 11 THEN BitOf(hi, i - 7)
        ELSE IF i = 12 THEN b12
        ELSE BitOf(f3, i - 13)]

\* the <<rd, rs1>> pairs of the sampled words
RegPairs == {<<0, 0>>} \cup {<<r, 31 - r>> : r \in 0..RegBound}

\* the funct7 values OP-FP matches on, and some it does not
FpFunct7 ==
    {\b0000000, \b0000100, \b0001000, \b0001100, \b0101100, \b0010000, \b0010100,
     \b1100000, \b1110000, \b1010000, \b1101000, \b1111000, \b0100000,
     \b0000001, \b0000101, \b0001001, \b0001101, \b0101101, \b0010001, \b0010101,
     \b0100001, \b1010001, \b1110001, \b1100001, \b1101001, \b1111001,
     \b0000010, \b0000011, \b1111100, \b1111101, \b1111111}

\* [ops, f3s, f7s, rs2s]: the fields each family of words ranges over
Families ==
    << \* every value of the low seven bits, the all-zero word among them
       [ops |-> 0..127, f3s |-> {0, 7}, f7s |-> {0, 127}, rs2s |-> {0}],
       \* upper immediates, jumps, branches, loads, stores
       [ops |-> {\b0110111, \b0010111, \b1101111, \b1100111, \b1100011, \b0000011,
                 \b0100011, \b0000111, \b0100111},
        f3s |-> 0..7, f7s |-> {\b0000000, \b0000001, \b0100000, \b1000000, \b1111111},
        rs2s |-> {0, 1, 31}],
       \* OP-IMM and OP-IMM-32: every funct7 for the shifts
       [ops |-> {\b0010011, \b0011011}, f3s |-> {1, 5}, f7s |-> 0..127, rs2s |-> {0, 1, 21, 31}],
       [ops |-> {\b0010011, \b0011011}, f3s |-> {0, 2, 3, 4, 6, 7},
        f7s |-> {\b0000000, \b0100000, \b1111111}, rs2s |-> {0, 1, 31}],
       \* OP and OP-32
       [ops |-> {\b0110011, \b0111011}, f3s |-> 0..7,
        f7s |-> {\b0000000, \b0100000, \b0000001, \b0000010, \b0100001, \b1000000, \b1111111},
        rs2s |-> {0, 1, 31}],
       \* MISC-MEM: fm and the pred / succ sets, fence.tso and pause among them
       [ops |-> {\b0001111}, f3s |-> 0..7,
        f7s |-> {\b0000000, \b0000001, \b0000111, \b0001000, \b1000001, \b1111111},
        rs2s |-> {0, 15, 16, 19, 31}],
       \* SYSTEM: imm 0, 1, 2, 0xC00 and others
       [ops |-> {\b1110011}, f3s |-> 0..7,
        f7s |-> {\b0000000, \b0000001, \b1100000, \b1111111}, rs2s |-> {0, 1, 2, 31}],
       \* AMO: every value of bits 31..25
       [ops |-> {\b00101111}, f3s |-> {2, 3}, f7s |-> 0..127, rs2s |-> {0, 1}],
       \* the fused multiply-adds
       [ops |-> {\b1000011, \b1000111, \b1001011, \b1001111}, f3s |-> 0..7,
        f7s |-> {\b0000000, \b0000001, \b0000010, \b0000011, \b1111101}, rs2s |-> {0, 31}],
       \* OP-FP
       [ops |-> {\b1010011}, f3s |-> 0..7, f7s |-> FpFunct7, rs2s |-> {0, 1, 2, 3, 4, 31}] >>

\* the words of family k
FamilyWords(k) ==
    {Word(op, p[1], f3, p[2], s2, f7) :
        op \in Families[k].ops, f3 \in Families[k].f3s, f7 \in Families[k].f7s,
        s2 \in Families[k].rs2s, p \in RegPairs}

\* the largest u32 handed to RoundingMode::from_rm on its own
RmBound == 16

\* the u32 words handed to decode_normal
NormalWords == UNION {FamilyWords(k) : k \in 1..Len(Families)}

\* the u16 words handed to decode_compressed
CompressedWords ==
    {Word16(q, lo, hi, b12, f3) :
        q \in 0..3, lo \in {0, 1, 10, 21, 31},
        hi \in (0..(RegBound + 1)) \cup {8, 21, 31}, b12 \in 0..1, f3 \in 0..7}

\* the u32 words handed to decode(): sampled 16-bit words under each upper half,
\* and the words of the first family
AutoWords ==
    {[i \in 0..31 |-> IF i <= 15 THEN lo[i] ELSE hi[i - 16]] :
        lo \in CompressedWords,
        hi \in {[i \in 0..15 |-> BitOf(h * (2 ^ 16 - 1), i)] : h \in 0..(HiBound - 1)}}
    \cup FamilyWords(1)

-----------------------------------------------------------------------------
(* The Fence queries and the pretty-printer. What Display writes is kept   *)
(* as its mnemonic (the text up to the first space of the format string)   *)
(* and whether the trailing rounding-mode token is written.                *)

\* Fence::is_tso: matches!(self, Self { fm: 0b1000, pred: FenceSet { device_input: _,
\* device_output: _, memory_read: true, memory_write: true }, succ: the same, .. })
is_tso(fence) ==
    /\ fence.fm = \b1000
    /\ fence.pred.memory_read /\ fence.pred.memory_write
    /\ fence.succ.memory_read /\ fence.succ.memory_write

\* a faulty Fence::is_pause that does not look at rd and rs1
is_pause_any_regs(fence) ==
    /\ fence.pred = [device_input |-> FALSE, device_output |-> FALSE,
                     memory_read |-> FALSE, memory_write |-> TRUE]
    /\ fence.succ = [device_input |-> FALSE, device_output |-> FALSE,
                     memory_read |-> FALSE, memory_write |-> FALSE]

\* Fence::is_pause
is_pause(fence) ==
    /\ fence.pred = [device_input |-> FALSE, device_output |-> FALSE,
                     memory_read |-> FALSE, memory_write |-> TRUE]
    /\ fence.succ = [device_input |-> FALSE, device_output |-> FALSE,
                     memory_read |-> FALSE, memory_write |-> FALSE]
    /\ fence.dest = Reg_ZERO
    /\ fence.src = Reg_ZERO

\* impl Display for Inst: fmt
Inst_fmt(i) ==
    LET v == i.variant
        \* the arms with one format string, or two that differ in the rm token only
        Plain == [Add |-> "add", AddW |-> "addw", AmoW |-> "amo{op}.w{order}", And |-> "and",
                  Andi |-> "andi", Auipc |-> "auipc", Beq |-> "beq", Bge |-> "bge",
                  Bgeu |-> "bgeu", Blt |-> "blt", Bltu |-> "bltu", Bne |-> "bne",
                  Csrrc |-> "csrrc", Csrrci |-> "csrrci", Csrrs |-> "csrrs", Csrrsi |-> "csrrsi",
                  Csrrw |-> "csrrw", Csrrwi |-> "csrrwi", Div |-> "div", DivW |-> "divw",
                  Divu |-> "divu", DivuW |-> "divuw", Ebreak |-> "ebreak", Ecall |-> "ecall",
                  FaddD |-> "fadd.d", FaddS |-> "fadd.s", FclassD |-> "fclass.d",
                  FclassS |-> "fclass.s", FcvtDL |-> "fcvt.d.l", FcvtDLu |-> "fcvt.d.lu",
                  FcvtDS |-> "fcvt.d.s", FcvtDW |-> "fcvt.d.w", FcvtDWu |-> "fcvt.d.wu",
                  FcvtLD |-> "fcvt.l.d", FcvtLS |-> "fcvt.l.s", FcvtLuD |-> "fcvt.lu.d",
                  FcvtLuS |-> "fcvt.lu.s", FcvtSD |-> "fcvt.s.d", FcvtSL |-> "fcvt.s.l",
                  FcvtSLu |-> "fcvt.s.lu", FcvtSW |-> "fcvt.s.w", FcvtSWu |-> "fcvt.s.wu",
                  FcvtWD |-> "fcvt.w.d", FcvtWS |-> "fcvt.w.s", FcvtWuD |-> "fcvt.wu.d",
                  FcvtWuS |-> "fcvt.wu.s", FdivD |-> "fdiv.d", FdivS |-> "fdiv.s",
                  FeqD |-> "feq.d", FeqS |-> "feq.s", Fld |-> "fld", FleD |-> "fle.d",
                  FleS |-> "fle.s", FltD |-> "flt.d", FltS |-> "flt.s", Flw |-> "flw",
                  FmaddD |-> "fmadd.d", FmaddS |-> "fmadd.s", FmaxD |-> "fmax.d",
                  FmaxS |-> "fmax.s", FminD |-> "fmin.d", FminS |-> "fmin.s",
                  FmsubD |-> "fmsub.d", FmsubS |-> "fmsub.s", FmulD |-> "fmul.d",
                  FmulS |-> "fmul.s", FmvDX |-> "fmv.d.x", FmvWX |-> "fmv.w.x",
                  FmvXD |-> "fmv.x.d", FmvXW |-> "fmv.x.w", FnmaddD |-> "fnmadd.d",
                  FnmaddS |-> "fnmadd.s", FnmsubD |-> "fnmsub.d", FnmsubS |-> "fnmsub.s",
                  Fsd |-> "fsd", FsgnjD |-> "fsgnj.d", FsgnjS |-> "fsgnj.s",
                  FsgnjnD |-> "fsgnjn.d", FsgnjnS |-> "fsgnjn.s", FsgnjxD |-> "fsgnjx.d",
                  FsgnjxS |-> "fsgnjx.s", FsqrtD |-> "fsqrt.d", FsqrtS |-> "fsqrt.s",
                  FsubD |-> "fsub.d", FsubS |-> "fsub.s", Fsw |-> "fsw", Lb |-> "lb",
                  Lbu |-> "lbu", Ld |-> "ld", Lh |-> "lh", Lhu |-> "lhu", LrW |-> "lr.w{order}",
                  Lui |-> "lui", Lw |-> "lw", Lwu |-> "lwu", Mul |-> "mul", MulW |-> "mulw",
                  Mulh |-> "mulh", Mulhsu |-> "mulhsu", Mulhu |-> "mulhu", Or |-> "or",
                  Ori |-> "ori", Rem |-> "rem", RemW |-> "remw", Remu |-> "remu",
                  RemuW |-> "remuw", Sb |-> "sb", ScW |-> "sc.w{order}", Sd |-> "sd",
                  Sh |-> "sh", Sll |-> "sll", SllW |-> "sllw", Slli |-> "slli",
                  SlliW |-> "slliw", Slt |-> "slt", Slti |-> "slti", Sltiu |-> "sltiu",
                  Sltu |-> "sltu", Sra |-> "sra", SraW |-> "sraw", Srai |-> "srai",
                  SraiW |-> "sraiw", Srl |-> "srl", SrlW |-> "srlw", Srli |-> "srli",
                  SrliW |-> "srliw", Sub |-> "sub", SubW |-> "subw", Sw |-> "sw", Xor |-> "xor",
                  Xori |-> "xori"]
        mnemonic ==
            CASE v = "Jal" -> IF i.dest = 0 THEN "j" ELSE "jal"
              [] v = "Jalr" ->
                    IF i.dest = Reg_ZERO /\ as_u32(i.offset) = FromNat(0) /\ i.base = Reg_RA
                    THEN "ret" ELSE "jalr"
              [] v = "Addi" ->
                    IF i.dest = 0 /\ i.src1 = 0 /\ as_u32(i.imm) = FromNat(0) THEN "nop"
                    ELSE IF i.src1 = 0 THEN "li"
                    ELSE IF as_u32(i.imm) = FromNat(0) THEN "mv"
                    ELSE "addi"
              [] v = "AddiW" -> IF as_u32(i.imm) = FromNat(0) THEN "sext.w" ELSE "addiw"
              [] v = "Fence" ->
                    IF is_tso(i.fence) THEN "fence.tso"
                    ELSE IF i.fence.fm = \b0000 /\ is_pause(i.fence) THEN "pause"
                    ELSE "fence"
              [] OTHER -> Plain[v]
    IN  [mnemonic |-> mnemonic,
         rm_token |-> "rm" \in DOMAIN i /\ i.rm # "Dynamic"]

\* the Zicsr, F and D instructions the tests build by hand: every such variant,
\* with sampled registers, csr numbers, uimm values, offsets and each rounding mode
BuiltInsts ==
    LET Pairs == RegPairs \cup {<<p[2], p[1]>> : p \in RegPairs}
        Regs4 == {<<p[1], p[2], q[1], q[2]>> : p \in Pairs, q \in Pairs}
        Csrs == {0, 1, 768, 3072, 4095}      \* 0x300 mstatus, 0xC00 cycle, 0xFFF
        Uimms == {new_u32(FromNat(n)) : n \in {0, 5, 31}}
        Offsets == {new_i32(FromNat(n)) : n \in {0, 4, 2047}}
                   \cup {new_i32(BitNot(FromNat(n))) : n \in {0, 2047}}   \* -1, -2048
        Rms == {"RoundToNearestTiesToEven", "RoundTowardsZero", "RoundDown", "RoundUp",
                "RoundToNearestTiesToMax", "Dynamic"}
        Fma == {"FmaddS", "FmsubS", "FnmsubS", "FnmaddS", "FmaddD", "FmsubD", "FnmsubD", "FnmaddD"}
        Rm3 == {"FaddS", "FsubS", "FmulS", "FdivS", "FaddD", "FsubD", "FmulD", "FdivD"}
        NoRm3 == {"FsgnjS", "FsgnjnS", "FsgnjxS", "FminS", "FmaxS", "FeqS", "FltS", "FleS",
                  "FsgnjD", "FsgnjnD", "FsgnjxD", "FminD", "FmaxD", "FeqD", "FltD", "FleD"}
        Rm2 == {"FsqrtS", "FsqrtD", "FcvtSD", "FcvtDS",
                "FcvtWS", "FcvtWuS", "FcvtLS", "FcvtLuS", "FcvtWD", "FcvtWuD", "FcvtLD", "FcvtLuD",
                "FcvtSW", "FcvtSWu", "FcvtSL", "FcvtSLu", "FcvtDW", "FcvtDWu", "FcvtDL", "FcvtDLu"}
        NoRm2 == {"FmvXW", "FclassS", "FclassD", "FmvXD", "FmvWX", "FmvDX"}
    IN  {[variant |-> v, csr |-> c, dest |-> p[1], src |-> p[2]] :
            v \in {"Csrrw", "Csrrs", "Csrrc"}, c \in Csrs, p \in Pairs}
        \cup {[variant |-> v, csr |-> c, dest |-> p[1], uimm |-> u] :
            v \in {"Csrrwi", "Csrrsi", "Csrrci"}, c \in Csrs, p \in Pairs, u \in Uimms}
        \cup {[variant |-> v, offset |-> o, dest |-> p[1], base |-> p[2]] :
            v \in {"Flw", "Fld"}, o \in Offsets, p \in Pairs}
        \cup {[variant |-> v, offset |-> o, src |-> p[1], base |-> p[2]] :
            v \in {"Fsw", "Fsd"}, o \in Offsets, p \in Pairs}
        \cup {[variant |-> v, rm |-> r, dest |-> t[1], src1 |-> t[2], src2 |-> t[3], src3 |-> t[4]] :
            v \in Fma, r \in Rms, t \in Regs4}
        \cup {[variant |-> v, rm |-> r, dest |-> t[1], src1 |-> t[2], src2 |-> t[3]] :
            v \in Rm3, r \in Rms, t \in Regs4}
        \cup {[variant |-> v, dest |-> t[1], src1 |-> t[2], src2 |-> t[3]] :
            v \in NoRm3, t \in Regs4}
        \cup {[variant |-> v, rm |-> r, dest |-> p[1], src |-> p[2]] :
            v \in Rm2, r \in Rms, p \in Pairs}
        \cup {[variant |-> v, dest |-> p[1], src |-> p[2]] : v \in NoRm2, p \in Pairs}

\* Inst values a caller builds directly (the enum and the fields of Reg, FReg, Csr and
\* Fence are public, an Imm holds any u32 or i32): the shifts with every kind of shift
\* amount, and one or two variants of each encoding format with register numbers above
\* 31, csr numbers above 4095, fm above 15 and immediates outside the field
AnyInsts ==
    LET Pairs == RegPairs \cup {<<p[2], p[1]>> : p \in RegPairs}
        Shamts == {new_u32(FromNat(n)) : n \in {0, 1, 31, 32, 63}}
        \* <<dest, src1, src2, src3>>
        Regs == {<<32, 255, 47, 0>>, <<0, 31, 33, 255>>, <<255, 255, 255, 255>>}
        \* 2048, -2049, 0xFFFF_FFFF as a u32, i32::MAX
        Imms == {new_i32(FromNat(2048)), new_i32(BitNot(FromNat(2048))),
                 new_u32(BitNot(FromNat(0))), new_i32(FromNat(2147483647))}
        Csrs == {4096, 8191, 65535}
        Sets == {[device_input |-> FALSE, device_output |-> FALSE,
                  memory_read |-> FALSE, memory_write |-> FALSE],
                 [device_input |-> TRUE, device_output |-> FALSE,
                  memory_read |-> TRUE, memory_write |-> TRUE]}
    IN  {[variant |-> v, imm |-> n, dest |-> p[1], src1 |-> p[2]] :
            v \in {"Slli", "Srli", "Srai"}, n \in Shamts, p \in Pairs}
        \cup {[variant |-> "Add", dest |-> t[1], src1 |-> t[2], src2 |-> t[3]] : t \in Regs}
        \cup {[variant |-> "Addi", imm |-> n, dest |-> t[1], src1 |-> t[2]] :
                t \in Regs, n \in Imms}
        \cup {[variant |-> "Lw", offset |-> n, dest |-> t[1], base |-> t[2]] :
                t \in Regs, n \in Imms}
        \cup {[variant |-> "Sw", offset |-> n, src |-> t[3], base |-> t[2]] :
                t \in Regs, n \in Imms}
        \cup {[variant |-> "Beq", offset |-> n, src1 |-> t[2], src2 |-> t[3]] :
                t \in Regs, n \in Imms}
        \cup {[variant |-> "Lui", uimm |-> n, dest |-> t[1]] : t \in Regs, n \in Imms}
        \cup {[variant |-> "Jal", offset |-> n, dest |-> t[1]] : t \in Regs, n \in Imms}
        \cup {[variant |-> "Jalr", offset |-> n, base |-> t[2], dest |-> t[1]] :
                t \in Regs, n \in Imms}
        \cup {[variant |-> "Fence",
               fence |-> [fm |-> fm, pred |-> ps, succ |-> ss, dest |-> t[1], src |-> t[2]]] :
                fm \in {16, 24, 255}, ps \in Sets, ss \in Sets, t \in Regs}
        \cup {[variant |-> "AmoW", order |-> o, op |-> "Maxu", dest |-> t[1], addr |-> t[2],
               src |-> t[3]] : o \in {"Relaxed", "SeqCst"}, t \in Regs}
        \cup {[variant |-> "Csrrw", csr |-> c, dest |-> t[1], src |-> t[2]] :
                c \in Csrs, t \in Regs}
        \cup {[variant |-> "Csrrwi", csr |-> c, dest |-> t[1], uimm |-> n] :
                c \in Csrs, t \in Regs, n \in Imms}
        \cup {[variant |-> "FaddS", rm |-> "RoundUp", dest |-> t[1], src1 |-> t[2],
               src2 |-> t[3]] : t \in Regs}
        \cup {[variant |-> "FmaddD", rm |-> "RoundUp", dest |-> t[1], src1 |-> t[2],
               src2 |-> t[3], src3 |-> t[4]] : t \in Regs}

-----------------------------------------------------------------------------
(* The callers. A caller decodes one word through one of the three entry   *)
(* points, may encode an instruction it got and decode the encoded word    *)
(* again, and may ask first_byte_is_compressed about a byte.               *)

\* nothing has been called yet: a slot holds a record or a tuple around None, of the
\* kind of value stored in it later (TLC cannot compare a string with a record)
Init ==
    /\ xlen \in {"Rv32", "Rv64"}
    /\ pc = "idle"
    /\ entry = None
    /\ code = <<None>>
    /\ res = [tag |-> None]
    /\ enc = <<None>>
    /\ res2 = [tag |-> None]
    /\ fb = [tag |-> None]
    /\ rnd = [tag |-> None]
    /\ built = [tag |-> None]
    /\ out = [tag |-> None]
    /\ sg = [tag |-> None]

\* Inst::decode_normal(w, xlen)
DecodeNormal ==
    /\ pc = "idle"
    /\ \E w \in NormalWords :
          /\ code' = w
          /\ res' = decode_normal(w, xlen)
    /\ entry' = "normal"
    /\ pc' = "decoded"
    /\ UNCHANGED <<xlen, enc, res2, fb, rnd, built, out, sg>>

\* Inst::decode_compressed(w, xlen)
DecodeCompressed ==
    /\ pc = "idle"
    /\ \E w \in CompressedWords :
          /\ code' = w
          /\ res' = decode_compressed(w, xlen)
    /\ entry' = "compressed"
    /\ pc' = "decoded"
    /\ UNCHANGED <<xlen, enc, res2, fb, rnd, built, out, sg>>

\* Inst::decode(w, xlen)
Decode ==
    /\ pc = "idle"
    /\ \E w \in AutoWords :
          /\ code' = w
          /\ res' = decode(w, xlen)
    /\ entry' = "auto"
    /\ pc' = "decoded"
    /\ UNCHANGED <<xlen, enc, res2, fb, rnd, built, out, sg>>

\* inst.encode_normal(xlen), for the instruction the decoder returned
EncodeNormal ==
    /\ pc = "decoded"
    /\ res.tag = "Ok"
    /\ enc' = encode_normal(res.inst, xlen)
    /\ pc' = "encoded"
    /\ UNCHANGED <<xlen, entry, code, res, res2, fb, rnd, built, out, sg>>

\* Inst::decode_normal(enc, xlen), for the word encode_normal returned
DecodeEncoded ==
    /\ pc = "encoded"
    /\ enc # PANIC_BITS
    /\ res2' = decode_normal(enc, xlen)
    /\ pc' = "redecoded"
    /\ UNCHANGED <<xlen, entry, code, res, enc, fb, rnd, built, out, sg>>

\* Inst::first_byte_is_compressed(b): about any byte before decoding, or about
\* the first byte (bits 7..0 of the little-endian word) of the word decode() was given
FirstByteIsCompressed ==
    /\ \E b \in 0..255 :
          /\ \/ pc = "idle"
             \/ pc = "decoded" /\ entry = "auto" /\ b = BitsToNat(code, 0, 7)
          /\ fb' = [byte |-> b, ret |-> first_byte_is_compressed(b)]
    /\ pc' = "asked"
    /\ UNCHANGED <<xlen, entry, code, res, enc, res2, rnd, built, out, sg>>

\* RoundingMode::from_rm(n), for a u32 the caller chose
FromRm ==
    /\ pc = "idle"
    /\ \E n \in 0..RmBound : rnd' = [rm |-> n, ret |-> from_rm(n)]
    /\ pc' = "rounded"
    /\ UNCHANGED <<xlen, entry, code, res, enc, res2, fb, built, out, sg>>

\* the tests build an Inst by hand: let inst = Inst::Csrrw { .. } and so on
Build ==
    /\ pc = "idle"
    /\ built' \in BuiltInsts
    /\ pc' = "built"
    /\ UNCHANGED <<xlen, entry, code, res, enc, res2, fb, rnd, out, sg>>

\* let encoded = inst.encode_normal(xlen)
EncodeBuilt ==
    /\ pc = "built"
    /\ enc' = encode_normal(built, xlen)
    /\ pc' = "built_encoded"
    /\ UNCHANGED <<xlen, entry, code, res, res2, fb, rnd, built, out, sg>>

\* Inst::decode(encoded, xlen)
DecodeBuilt ==
    /\ pc = "built_encoded"
    /\ enc # PANIC_BITS
    /\ res2' = decode(enc, xlen)
    /\ pc' = "built_redecoded"
    /\ UNCHANGED <<xlen, entry, code, res, enc, fb, rnd, built, out, sg>>

\* format!("{inst}") for the instruction decode_normal or decode_compressed returned
DisplayInst ==
    /\ pc = "decoded"
    /\ entry \in {"normal", "compressed"}
    /\ res.tag = "Ok"
    /\ out' = Inst_fmt(res.inst)
    /\ pc' = "printed"
    /\ UNCHANGED <<xlen, entry, code, res, enc, res2, fb, rnd, built, sg>>

\* fence.is_tso() and fence.is_pause() for the Fence decode_normal returned
FenceQuery ==
    /\ pc = "decoded"
    /\ entry = "normal"
    /\ res.tag = "Ok"
    /\ res.inst.variant = "Fence"
    /\ out' = [is_tso |-> is_tso(res.inst.fence), is_pause |-> is_pause(res.inst.fence)]
    /\ pc' = "queried"
    /\ UNCHANGED <<xlen, entry, code, res, enc, res2, fb, rnd, built, sg>>

\* InstCode(w).with_imm_m(Imm::new_i32(v)) for a base format m, a word w and a value v of
\* the format: its least, its greatest, the values next to zero and a mixed bit pattern
WithImm ==
    LET I32(n) == IF n >= 0 THEN FromNat(n) ELSE BitNot(FromNat(0 - (n + 1)))
        Words == {FromNat(0), BitNot(FromNat(0)), FromNat(1431655765)}
        Values == [I |-> {0 - 2048, 0 - 1, 0, 1, 1365, 2047},
                   S |-> {0 - 2048, 0 - 1, 0, 1, 1365, 2047},
                   B |-> {0 - 4096, 0 - 2, 0, 2, 2730, 4094},
                   U |-> {(0 - 2147483647) - 1, 0 - 4096, 0, 4096, 1431654400, 2147479552},
                   J |-> {0 - 1048576, 0 - 2, 0, 2, 699050, 1048574}]
        with_imm(m, c, data) ==
            CASE m = "I" -> with_imm_i(c, data)
              [] m = "S" -> with_imm_s(c, data)
              [] m = "B" -> with_imm_b(c, data)
              [] m = "U" -> with_imm_u(c, data)
              [] m = "J" -> with_imm_j(c, data)
    IN  /\ pc = "idle"
        /\ \E m \in DOMAIN Values : \E w \in Words : \E v \in Values[m] :
              sg' = [m |-> m, w |-> w, v |-> v, data |-> new_i32(I32(v)),
                     code |-> with_imm(m, w, new_i32(I32(v)))]
        /\ pc' = "scattered"
        /\ UNCHANGED <<xlen, entry, code, res, enc, res2, fb, rnd, built, out>>

\* InstCode(code).imm_m() for the word with_imm_m returned
GetImm ==
    LET imm(m, c) ==
            CASE m = "I" -> imm_i(c)
              [] m = "S" -> imm_s(c)
              [] m = "B" -> imm_b(c)
              [] m = "U" -> imm_u(c)
              [] m = "J" -> imm_j(c)
    IN  /\ pc = "scattered"
        /\ sg.code # PANIC_BITS
        /\ sg' = [m |-> sg.m, w |-> sg.w, v |-> sg.v, data |-> sg.data, code |-> sg.code,
                  imm |-> imm(sg.m, sg.code)]
        /\ pc' = "gathered"
        /\ UNCHANGED <<xlen, entry, code, res, enc, res2, fb, rnd, built, out>>

\* a caller builds any Inst value: Inst::Slli { imm, dest, src1 } and so on
BuildAny ==
    /\ pc = "idle"
    /\ built' \in AnyInsts
    /\ pc' = "any_built"
    /\ UNCHANGED <<xlen, entry, code, res, enc, res2, fb, rnd, out, sg>>

\* Inst::encode_normal(&inst, xlen) for that value
EncodeAny ==
    /\ pc = "any_built"
    /\ enc' = encode_normal(built, xlen)
    /\ pc' = "any_encoded"
    /\ UNCHANGED <<xlen, entry, code, res, res2, fb, rnd, built, out, sg>>

Next ==
    \/ DecodeNormal
    \/ DecodeCompressed
    \/ Decode
    \/ EncodeNormal
    \/ DecodeEncoded
    \/ FirstByteIsCompressed
    \/ FromRm
    \/ Build
    \/ EncodeBuilt
    \/ DecodeBuilt
    \/ DisplayInst
    \/ FenceQuery
    \/ WithImm
    \/ GetImm
    \/ BuildAny
    \/ EncodeAny

Spec == Init /\ [][Next]_vars

-----------------------------------------------------------------------------
(* Properties.                                                             *)

\* tests::is_inst_supposed_to_roundtrip: every non-Fence instruction, the exact
\* fence.tso, and a Fence with fm = 0000 and src = dest = x0
is_inst_supposed_to_roundtrip(inst) ==
    IF inst.variant # "Fence" THEN TRUE
    ELSE \/ /\ inst.fence.fm = \b1000
            /\ inst.fence.pred = [device_input |-> FALSE, device_output |-> FALSE,
                                  memory_read |-> TRUE, memory_write |-> TRUE]
            /\ inst.fence.succ = [device_input |-> FALSE, device_output |-> FALSE,
                                  memory_read |-> TRUE, memory_write |-> TRUE]
            /\ inst.fence.src = Reg_ZERO
            /\ inst.fence.dest = Reg_ZERO
         \/ /\ inst.fence.fm = \b0000
            /\ inst.fence.src = Reg_ZERO
            /\ inst.fence.dest = Reg_ZERO

\* C1: decode_normal(w, xlen) and decode_compressed(w16, xlen) return Ok or Err
\* for every word and either xlen; they never panic (no shift overflow, no
\* unreachable! or assert! hit).
C1_Totality ==
    /\ entry \in {"normal", "compressed"} => res.tag \in {"Ok", "Err"}
    /\ pc = "redecoded" => res2.tag \in {"Ok", "Err"}

\* a compressed register-register arithmetic instruction was decoded: the arm
\* next to the two unreachable!() arms
C1_Witness ==
    /\ entry = "compressed"
    /\ res.tag = "Ok"
    /\ res.inst.variant = "And"
    /\ quadrant(code) = 1

\* C2: if decode_normal(w, xlen) = Ok(inst) then encode_normal(inst, xlen) is a
\* word that decode_normal decodes to Ok(inst) again.
C2_DecodeEncodeDecode ==
    entry = "normal" =>
        /\ pc = "encoded" => enc # PANIC_BITS
        /\ pc = "redecoded" => res2 = [tag |-> "Ok", inst |-> res.inst]

\* a 64-bit arithmetic right shift by 32 or more went through decode, encode, decode
C2_Witness ==
    /\ entry = "normal"
    /\ pc = "redecoded"
    /\ xlen = "Rv64"
    /\ res.inst.variant = "Srai"
    /\ res.inst.imm[5] = 1
    /\ res2.tag = "Ok"

\* C3: if decode_normal(w, xlen) = Ok(inst) and inst is canonical (not a Fence,
\* or the exact fence.tso, or a Fence with fm = 0000 and rd = rs1 = x0) then
\* encode_normal(inst, xlen) = w bit for bit.
C3_ExactWord ==
    (entry = "normal" /\ pc \in {"encoded", "redecoded"}
        /\ is_inst_supposed_to_roundtrip(res.inst)) => enc = code

\* the exact fence.tso was decoded and encoded
C3_Witness ==
    /\ entry = "normal"
    /\ pc = "encoded"
    /\ res.inst.variant = "Fence"
    /\ res.inst.fence.fm = \b1000
    /\ is_inst_supposed_to_roundtrip(res.inst)
    /\ enc = code

\* C4: decode(w, xlen) is decode_normal(w, xlen) tagged No when the low two bits
\* of w are 11, and decode_compressed(w mod 2^16, xlen) tagged Yes otherwise;
\* first_byte_is_compressed(b) is true exactly when (b & 0b11) != 0b11, and it
\* agrees with the tag decode returns for a word whose first byte is b.
C4_WidthDetection ==
    /\ entry = "auto" =>
          LET low == [i \in 0..15 |-> code[i]]
              r == IF code[0] = 1 /\ code[1] = 1
                   THEN decode_normal(code, xlen) ELSE decode_compressed(low, xlen)
              t == IF code[0] = 1 /\ code[1] = 1 THEN "No" ELSE "Yes"
          IN  /\ res.tag = r.tag
              /\ res.tag = "Ok" => res.inst = r.inst /\ res.is_compressed = t
              /\ res.tag = "Err" => res = r
    /\ pc = "asked" => (fb.ret <=> (fb.byte % 4) # 3)
    /\ (pc = "asked" /\ entry = "auto" /\ res.tag = "Ok") =>
          /\ fb.byte = BitsToNat(code, 0, 7)
          /\ fb.ret <=> res.is_compressed = "Yes"

\* decode() took the compressed path on a word whose upper half is not zero, and
\* the caller asked about its first byte
C4_Witness ==
    /\ pc = "asked"
    /\ entry = "auto"
    /\ res.tag = "Ok"
    /\ res.is_compressed = "Yes"
    /\ code[31] = 1
    /\ fb.ret

\* C5: under Rv32 neither decode_normal nor decode_compressed returns an
\* RV64-only instruction, and a word that decodes to one under Rv64 is Err
\* under Rv32.
C5_Rv64Only ==
    LET Rv64Only == {"Ld", "Lwu", "Sd", "AddiW", "SlliW", "SrliW", "SraiW", "AddW", "SubW",
                     "SllW", "SrlW", "SraW", "MulW", "DivW", "DivuW", "RemW", "RemuW",
                     "FcvtLS", "FcvtLuS", "FcvtSL", "FcvtSLu", "FcvtLD", "FcvtLuD",
                     "FcvtDL", "FcvtDLu", "FmvXD", "FmvDX"}
    IN  (entry \in {"normal", "compressed"} /\ res.tag = "Ok") =>
            /\ xlen = "Rv32" => res.inst.variant \notin Rv64Only
            /\ (xlen = "Rv64" /\ res.inst.variant \in Rv64Only) =>
                  IF entry = "normal" THEN decode_normal(code, "Rv32").tag = "Err"
                  ELSE decode_compressed(code, "Rv32").tag = "Err"

\* FMV.D.X was decoded under Rv64
C5_Witness ==
    /\ entry = "normal"
    /\ xlen = "Rv64"
    /\ res.tag = "Ok"
    /\ res.inst.variant = "FmvDX"
    /\ decode_normal(code, "Rv32").tag = "Err"

\* C6: an OP-IMM word with funct3 001 or 101 decodes under Rv32 only when bits
\* 31..25 are 0000000 (Slli, Srli) or 0100000 (Srai, funct3 101 only), with imm
\* = bits 24..20; under Rv64 only when bits 31..26 are 000000 (Slli, Srli) or
\* 010000 (Srai, funct3 101 only), with imm = bits 25..20; otherwise it is Err.
C6_ShiftImmediate ==
    (entry = "normal" /\ BitsToNat(code, 0, 6) = \b0010011
        /\ BitsToNat(code, 12, 14) \in {\b001, \b101}) =>
        LET f3 == BitsToNat(code, 12, 14)
            upper == IF xlen = "Rv32" THEN BitsToNat(code, 25, 31) ELSE BitsToNat(code, 26, 31)
            arith == IF xlen = "Rv32" THEN \b0100000 ELSE \b010000
            shamt == IF xlen = "Rv32" THEN BitsToNat(code, 20, 24) ELSE BitsToNat(code, 20, 25)
            want == CASE upper = 0 /\ f3 = \b001 -> "Slli"
                      [] upper = 0 /\ f3 = \b101 -> "Srli"
                      [] upper = arith /\ f3 = \b101 -> "Srai"
                      [] OTHER -> None
        IN  IF want = None THEN res.tag = "Err"
            ELSE /\ res.tag = "Ok"
                 /\ res.inst.variant = want
                 /\ res.inst.imm = [i \in 0..63 |-> IF i <= 5 THEN BitOf(shamt, i) ELSE 0]

\* a logical right shift by 32 or more was decoded under Rv64
C6_Witness ==
    /\ entry = "normal"
    /\ xlen = "Rv64"
    /\ res.tag = "Ok"
    /\ res.inst.variant = "Srli"
    /\ BitsToNat(code, 20, 25) >= 32
    /\ res.inst.imm[5] = 1

\* C7: a SYSTEM word (opcode 1110011) with funct3 000 decodes only as Ecall
\* (exactly 0x00000073) or Ebreak (exactly 0x00100073) and is Err otherwise;
\* 0xC0001073 is Err; funct3 100 is Err; any other word with funct3 001 / 010 /
\* 011 is Csrrw / Csrrs / Csrrc with csr = bits 31..20, dest = bits 11..7 and
\* src = bits 19..15; a word with funct3 101 / 110 / 111 is Csrrwi / Csrrsi /
\* Csrrci with uimm = bits 19..15 zero-extended.
C7_SystemDispatch ==
    (entry = "normal" /\ BitsToNat(code, 0, 6) = \b1110011) =>
        LET f3 == BitsToNat(code, 12, 14)
            unimp == Word(\b1110011, 0, \b001, 0, 0, \b1100000)
            reg_csr == [n \in {1, 2, 3} |-> <<"Csrrw", "Csrrs", "Csrrc">>[n]]
            imm_csr == [n \in {5, 6, 7} |-> <<"Csrrwi", "Csrrsi", "Csrrci">>[n - 4]]
        IN  CASE code = unimp -> res.tag = "Err"
              [] f3 = \b000 ->
                    /\ code = Word(\b1110011, 0, 0, 0, 0, 0) => res = [tag |-> "Ok", inst |-> [variant |-> "Ecall"]]
                    /\ code = Word(\b1110011, 0, 0, 0, 1, 0) => res = [tag |-> "Ok", inst |-> [variant |-> "Ebreak"]]
                    /\ code \notin {Word(\b1110011, 0, 0, 0, 0, 0), Word(\b1110011, 0, 0, 0, 1, 0)}
                          => res.tag = "Err"
              [] f3 = \b100 -> res.tag = "Err"
              [] f3 \in {1, 2, 3} /\ code # unimp ->
                    res = [tag |-> "Ok",
                           inst |-> [variant |-> reg_csr[f3], csr |-> BitsToNat(code, 20, 31),
                                     dest |-> BitsToNat(code, 7, 11), src |-> BitsToNat(code, 15, 19)]]
              [] f3 \in {5, 6, 7} ->
                    /\ res.tag = "Ok"
                    /\ res.inst.variant = imm_csr[f3]
                    /\ res.inst.uimm = [i \in 0..63 |-> IF i <= 4 THEN code[15 + i] ELSE 0]

\* the defined illegal instruction 0xC0001073 was decoded and rejected
C7_Witness ==
    /\ entry = "normal"
    /\ code = Word(\b1110011, 0, \b001, 0, 0, \b1100000)
    /\ res.tag = "Err"
    /\ res.unexpected_field = "unimp instruction"

\* C8: a word whose low seven bits are not one of the 21 major opcodes decodes
\* to Err with unexpected_field = "opcode"; so does the all-zero word.
C8_OpcodeGate ==
    LET Major == {\b0110111, \b0010111, \b1101111, \b1100111, \b1100011, \b0000011,
                  \b0100011, \b0010011, \b0011011, \b0110011, \b0111011, \b0001111,
                  \b1110011, \b0101111, \b0000111, \b0100111, \b1000011, \b1000111,
                  \b1001011, \b1001111, \b1010011}
    IN  (entry = "normal" /\ (BitsToNat(code, 0, 6) \notin Major \/ code = [i \in 0..31 |-> 0])) =>
            /\ res.tag = "Err"
            /\ res.unexpected_field = "opcode"

\* the all-zero word was decoded and rejected at the opcode
C8_Witness ==
    /\ entry = "normal"
    /\ code = [i \in 0..31 |-> 0]
    /\ res.tag = "Err"
    /\ res.unexpected_field = "opcode"

\* C9: an Err of decode_normal(w, xlen) carries w; an Err of
\* decode_compressed(w16, xlen) carries w16 zero-extended to 32 bits; an Err of
\* decode(w, xlen) on the compressed path carries w mod 2^16.
C9_ErrorCarriesWord ==
    LET low16 == [i \in 0..31 |-> IF i <= 15 THEN code[i] ELSE 0]
    IN  (entry # None /\ res.tag = "Err") =>
            CASE entry = "normal" -> res.instruction = code
              [] entry = "compressed" -> res.instruction = low16
              [] entry = "auto" ->
                    IF code[0] = 1 /\ code[1] = 1 THEN res.instruction = code
                    ELSE res.instruction = low16

\* decode() rejected a compressed word whose bit 15 and upper half are set
C9_Witness ==
    /\ entry = "auto"
    /\ res.tag = "Err"
    /\ ~(code[0] = 1 /\ code[1] = 1)
    /\ code[15] = 1
    /\ code[16] = 1
    /\ res.instruction[16] = 0

\* C10: under Rv64, decode_compressed decodes C.LD (quadrant 00, funct3 011) to
\* Ld and C.SD (quadrant 00, funct3 111) to Sd, with dest / src = rd' / rs2'
\* (x8 + bits 4..2) and base = rs1' (x8 + bits 9..7).
C10_CLdCSd ==
    (entry = "compressed" /\ xlen = "Rv64" /\ BitsToNat(code, 0, 1) = \b00
        /\ BitsToNat(code, 13, 15) \in {\b011, \b111}) =>
        /\ res.tag = "Ok"
        /\ res.inst.base = 8 + BitsToNat(code, 7, 9)
        /\ IF BitsToNat(code, 13, 15) = \b011
           THEN res.inst.variant = "Ld" /\ res.inst.dest = 8 + BitsToNat(code, 2, 4)
           ELSE res.inst.variant = "Sd" /\ res.inst.src = 8 + BitsToNat(code, 2, 4)

\* a quadrant-00 word with funct3 011 was handed to decode_compressed under
\* Rv64 and came back as Err
C10_Rejected ==
    /\ entry = "compressed"
    /\ xlen = "Rv64"
    /\ BitsToNat(code, 0, 1) = \b00
    /\ BitsToNat(code, 13, 15) = \b011
    /\ res.tag = "Err"
    /\ res.unexpected_field = "C0 funct3"

\* C11: compressed quadrant 01, funct3 001 depends on XLEN: under Rv32
\* decode_compressed decodes it as C.JAL (Jal with dest ra), under Rv64 as
\* C.ADDIW (AddiW with dest = src1 = rd and the sign-extended 6-bit
\* immediate), never as Jal.
C11_JalOrAddiw ==
    (entry = "compressed" /\ BitsToNat(code, 0, 1) = \b01
        /\ BitsToNat(code, 13, 15) = \b001) =>
        /\ res.tag = "Ok"
        /\ IF xlen = "Rv32"
           THEN res.inst.variant = "Jal" /\ res.inst.dest = Reg_RA
           ELSE /\ res.inst.variant = "AddiW"
                /\ res.inst.dest = BitsToNat(code, 7, 11)
                /\ res.inst.src1 = BitsToNat(code, 7, 11)
                /\ res.inst.imm = new_i32(sign_extend(
                        [i \in 0..31 |-> IF i <= 4 THEN code[i + 2]
                                         ELSE IF i = 5 THEN code[12] ELSE 0], 6))

\* a quadrant-01 word with funct3 001 was handed to decode_compressed under
\* Rv64 and came back as Jal with dest ra
C11_JalOnRv64 ==
    /\ entry = "compressed"
    /\ xlen = "Rv64"
    /\ BitsToNat(code, 0, 1) = \b01
    /\ BitsToNat(code, 13, 15) = \b001
    /\ res.tag = "Ok"
    /\ res.inst.variant = "Jal"
    /\ res.inst.dest = Reg_RA

\* C12: compressed reserved encodings are errors. For every xlen
\* decode_compressed returns Err for the all-zero 16-bit word, for C.ADDI4SPN
\* with a zero immediate, for C.LUI (rd # 2) with a zero immediate, for C.LWSP
\* and C.LDSP with rd = 0 and for every word whose quadrant bits are 11; under
\* Rv32 it returns Err for every C.LDSP and C.SDSP word.
C12_ReservedEncodings ==
    entry = "compressed" =>
        LET q == BitsToNat(code, 0, 1)
            f3 == BitsToNat(code, 13, 15)
            rdv == BitsToNat(code, 7, 11)
            reserved ==
                \/ BitsToNat(code, 0, 15) = 0
                \/ q = \b00 /\ f3 = \b000 /\ BitsToNat(code, 5, 12) = 0
                \/ q = \b01 /\ f3 = \b011 /\ rdv # 2
                      /\ BitsToNat(code, 2, 6) = 0 /\ code[12] = 0
                \/ q = \b10 /\ f3 \in {\b010, \b011} /\ rdv = 0
                \/ q = \b11
                \/ xlen = "Rv32" /\ q = \b10 /\ f3 \in {\b011, \b111}
        IN  reserved => res.tag = "Err"

\* decode_compressed rejected a C.LUI word with rd = x1 and a zero immediate
\* under Rv64
C12_Witness ==
    /\ entry = "compressed"
    /\ xlen = "Rv64"
    /\ BitsToNat(code, 0, 1) = \b01
    /\ BitsToNat(code, 13, 15) = \b011
    /\ BitsToNat(code, 7, 11) = 1
    /\ BitsToNat(code, 2, 6) = 0
    /\ code[12] = 0
    /\ res.tag = "Err"
    /\ res.unexpected_field = "C.LUI zero immediate"

\* C13: compressed-to-uncompressed equivalence. If decode_compressed(w16, xlen)
\* = Ok(inst) then inst is producible by the uncompressed decoder for the same
\* xlen: encode_normal(inst, xlen) is a word that decode_normal decodes to
\* Ok(inst).
C13_CompressedEquivalence ==
    entry = "compressed" =>
        /\ pc = "encoded" => enc # PANIC_BITS
        /\ pc = "redecoded" => (res2.tag = "Ok" /\ res2.inst = res.inst)

\* a C.LUI with a negative immediate was decoded, encoded as a 32-bit word and
\* decoded again by decode_normal
C13_Witness ==
    /\ entry = "compressed"
    /\ pc = "redecoded"
    /\ res.inst.variant = "Lui"
    /\ res.inst.uimm[63] = 1
    /\ res2.tag = "Ok"
    /\ res2.inst.variant = "Lui"

\* C14: compressed operand mapping. In every successfully decoded 16-bit word a
\* 3-bit short register field r is register x(8 + r); C.ADDI4SPN with a nonzero
\* immediate is Addi { dest: rd', src1: sp, imm } with imm the zero-extended
\* nzuimm, a multiple of 4 in 4..=1020; C.ADDI is Addi { dest: rd, src1: rd,
\* imm } with imm the sign-extended 6-bit immediate (0x1101 is addi sp, sp,
\* -32); C.JR with rs1 # 0 is Jalr { dest: x0, base: rs1, offset: 0 }; C.EBREAK
\* (0x9002) is Ebreak.
C14_OperandMapping ==
    (entry = "compressed" /\ res.tag = "Ok") =>
        LET q == BitsToNat(code, 0, 1)
            f3 == BitsToNat(code, 13, 15)
            hi_short == 8 + BitsToNat(code, 7, 9)
            lo_short == 8 + BitsToNat(code, 2, 4)
            rdv == BitsToNat(code, 7, 11)
            nzuimm == 4 * code[6] + 8 * code[5] + 16 * BitsToNat(code, 11, 12)
                        + 64 * BitsToNat(code, 7, 10)
            imm6 == [i \in 0..63 |-> IF i <= 4 THEN code[i + 2] ELSE code[12]]
            inst == res.inst
        IN  /\ (q = \b00 /\ f3 = \b000) =>
                    /\ inst.variant = "Addi"
                    /\ inst.dest = lo_short
                    /\ inst.src1 = Reg_SP
                    /\ inst.imm = new_u32(FromNat(nzuimm))
                    /\ nzuimm % 4 = 0
                    /\ nzuimm \in 4..1020
            /\ (q = \b00 /\ f3 = \b010) => (inst.dest = lo_short /\ inst.base = hi_short)
            /\ (q = \b00 /\ f3 = \b110) => (inst.src = lo_short /\ inst.base = hi_short)
            /\ (q = \b01 /\ f3 = \b100) =>
                    /\ inst.dest = hi_short
                    /\ inst.src1 = hi_short
                    /\ BitsToNat(code, 10, 11) = \b11 => inst.src2 = lo_short
            /\ (q = \b01 /\ f3 \in {\b110, \b111}) => inst.src1 = hi_short
            /\ (q = \b01 /\ f3 = \b000) =>
                    /\ inst.variant = "Addi"
                    /\ inst.dest = rdv
                    /\ inst.src1 = rdv
                    /\ inst.imm = imm6
            /\ BitsToNat(code, 0, 15) = 4353 =>      \* 0x1101
                    inst = [variant |-> "Addi", dest |-> Reg_SP, src1 |-> Reg_SP,
                            imm |-> [i \in 0..63 |-> IF i >= 5 THEN 1 ELSE 0]]
            /\ (q = \b10 /\ f3 = \b100 /\ code[12] = 0 /\ BitsToNat(code, 2, 6) = 0
                    /\ rdv # 0) =>
                    inst = [variant |-> "Jalr", dest |-> Reg_ZERO, base |-> rdv,
                            offset |-> ImmZERO]
            /\ BitsToNat(code, 0, 15) = 36866 =>     \* 0x9002
                    inst = [variant |-> "Ebreak"]

\* decode_compressed decoded 0x1101 under Rv32 to addi sp, sp, -32
C14_Witness ==
    /\ entry = "compressed"
    /\ xlen = "Rv32"
    /\ BitsToNat(code, 0, 15) = 4353
    /\ res.tag = "Ok"
    /\ res.inst.variant = "Addi"
    /\ res.inst.dest = Reg_SP
    /\ res.inst.imm[63] = 1

\* C15: immediate semantics. Every Imm stored in an Inst returned by
\* decode_normal or decode_compressed satisfies as_i64 = as_i32 sign-extended
\* to 64 bits and as_u32 = the low 32 bits of as_u64; for every LUI or AUIPC
\* word w the stored uimm has as_u32 >> 12 = bits 31..12 of w, the low 12 bits
\* of as_u32 zero, and as_i64 negative exactly when bit 31 of w is set.
C15_ImmSemantics ==
    (entry \in {"normal", "compressed"} /\ res.tag = "Ok") =>
        LET inst == res.inst
            sext64(v) == [i \in 0..63 |-> IF i <= 31 THEN v[i] ELSE v[31]]
            low32(v) == [i \in 0..31 |-> v[i]]
            negative(v) == v[63] = 1
        IN  /\ \A f \in DOMAIN inst \cap {"imm", "offset", "uimm"} :
                  /\ as_i64(inst[f]) = sext64(as_i32(inst[f]))
                  /\ as_u32(inst[f]) = low32(as_u64(inst[f]))
            /\ (entry = "normal" /\ BitsToNat(code, 0, 6) \in {\b0110111, \b0010111}) =>
                  /\ inst.variant \in {"Lui", "Auipc"}
                  /\ Shr(as_u32(inst.uimm), 12) = Shr(code, 12)
                  /\ \A i \in 0..11 : as_u32(inst.uimm)[i] = 0
                  /\ negative(as_i64(inst.uimm)) <=> code[31] = 1

\* decode_normal decoded an AUIPC word with bit 31 set under Rv64: the stored
\* uimm is negative as an i64
C15_Witness ==
    /\ entry = "normal"
    /\ xlen = "Rv64"
    /\ BitsToNat(code, 0, 6) = \b0010111
    /\ code[31] = 1
    /\ res.tag = "Ok"
    /\ res.inst.variant = "Auipc"
    /\ as_i64(res.inst.uimm)[63] = 1

\* C16: operand ranges. In every Inst returned by decode_normal or
\* decode_compressed each Reg and FReg index is in 0..=31, each Csr is in
\* 0..=4095, each Fence.fm is in 0..=15 and each CSR uimm is in 0..=31.
C16_OperandRanges ==
    (entry \in {"normal", "compressed"} /\ res.tag = "Ok") =>
        LET inst == res.inst
            NotRegs == {"variant", "imm", "offset", "uimm", "csr", "fence", "op", "order", "rm"}
        IN  /\ \A f \in DOMAIN inst \ NotRegs : inst[f] \in 0..31
            /\ "csr" \in DOMAIN inst => inst.csr \in 0..4095
            /\ inst.variant = "Fence" =>
                  /\ inst.fence.fm \in 0..15
                  /\ inst.fence.dest \in 0..31
                  /\ inst.fence.src \in 0..31
            /\ inst.variant \in {"Csrrwi", "Csrrsi", "Csrrci"} =>
                  /\ \A i \in 5..63 : inst.uimm[i] = 0
                  /\ BitsToNat(inst.uimm, 0, 4) \in 0..31

\* decode_normal decoded a csrrwi with csr = 0xFFF and uimm = 31
C16_Witness ==
    /\ entry = "normal"
    /\ res.tag = "Ok"
    /\ res.inst.variant = "Csrrwi"
    /\ res.inst.csr = 4095
    /\ BitsToNat(res.inst.uimm, 0, 4) = 31

\* C17: reserved rounding modes are rejected. For every xlen and every word
\* whose opcode is MADD / MSUB / NMSUB / NMADD, or OP-FP with a funct7 of an
\* instruction that carries a rounding mode (FADD, FSUB, FMUL, FDIV, FSQRT,
\* FCVT.* in single or double format), decode_normal returns Err when bits
\* 14..12 are 101 or 110; RoundingMode::from_rm returns None for 5, 6 and
\* every value above 7.
C17_ReservedRoundingModes ==
    LET RmFunct7 == {\b0000000, \b0000100, \b0001000, \b0001100, \b0101100,
                     \b1100000, \b1101000, \b0100000,
                     \b0000001, \b0000101, \b0001001, \b0001101, \b0101101,
                     \b1100001, \b1101001, \b0100001}
    IN  /\ (entry = "normal" /\ BitsToNat(code, 12, 14) \in {\b101, \b110}
              /\ \/ BitsToNat(code, 0, 6) \in {\b1000011, \b1000111, \b1001011, \b1001111}
                 \/ BitsToNat(code, 0, 6) = \b1010011 /\ BitsToNat(code, 25, 31) \in RmFunct7)
                => res.tag = "Err"
        /\ (pc = "rounded" /\ (rnd.rm \in {5, 6} \/ rnd.rm > 7)) => rnd.ret = None

\* decode_normal rejected an fmadd.s word with rm = 101
C17_Witness ==
    /\ entry = "normal"
    /\ BitsToNat(code, 0, 6) = \b1000011
    /\ BitsToNat(code, 25, 26) = \b00
    /\ BitsToNat(code, 12, 14) = \b101
    /\ res.tag = "Err"
    /\ res.unexpected_field = "invalid rounding mode"

\* C18: AMO policy. For every xlen and every word with opcode 0101111,
\* decode_normal returns Err unless funct3 = 010; with funct3 = 010, bits
\* 31..27 = 00010 decode as LrW only when rs2 = 0 (Err otherwise), 00011 as
\* ScW, and 00001, 00000, 00100, 01100, 01000, 10000, 10100, 11000, 11100 as
\* AmoW with op Swap, Add, Xor, And, Or, Min, Max, Minu, Maxu; every other
\* value of bits 31..27 is Err; the ordering is from_aq_rl(bit 26, bit 25).
C18_AmoPolicy ==
    (entry = "normal" /\ BitsToNat(code, 0, 6) = \b0101111) =>
        LET kind == BitsToNat(code, 27, 31)
            OpOf == [k \in {\b00001, \b00000, \b00100, \b01100, \b01000, \b10000,
                            \b10100, \b11000, \b11100} |->
                        CASE k = \b00001 -> "Swap" [] k = \b00000 -> "Add"
                          [] k = \b00100 -> "Xor"  [] k = \b01100 -> "And"
                          [] k = \b01000 -> "Or"   [] k = \b10000 -> "Min"
                          [] k = \b10100 -> "Max"  [] k = \b11000 -> "Minu"
                          [] k = \b11100 -> "Maxu"]
            order == from_aq_rl(code[26] = 1, code[25] = 1)
            rdv == BitsToNat(code, 7, 11)
            rs1v == BitsToNat(code, 15, 19)
            rs2v == BitsToNat(code, 20, 24)
        IN  IF BitsToNat(code, 12, 14) # \b010 THEN res.tag = "Err"
            ELSE CASE kind = \b00010 ->
                        IF rs2v = 0
                        THEN res = [tag |-> "Ok", inst |->
                                [variant |-> "LrW", order |-> order, dest |-> rdv, addr |-> rs1v]]
                        ELSE res.tag = "Err"
                   [] kind = \b00011 ->
                        res = [tag |-> "Ok", inst |->
                                [variant |-> "ScW", order |-> order, dest |-> rdv,
                                 addr |-> rs1v, src |-> rs2v]]
                   [] kind \in DOMAIN OpOf ->
                        res = [tag |-> "Ok", inst |->
                                [variant |-> "AmoW", order |-> order, op |-> OpOf[kind],
                                 dest |-> rdv, addr |-> rs1v, src |-> rs2v]]
                   [] OTHER -> res.tag = "Err"

\* decode_normal decoded amoand.w with aq set and rl clear
C18_Witness ==
    /\ entry = "normal"
    /\ BitsToNat(code, 0, 6) = \b0101111
    /\ BitsToNat(code, 12, 14) = \b010
    /\ BitsToNat(code, 25, 31) = \b0110010
    /\ res.tag = "Ok"
    /\ res.inst.variant = "AmoW"
    /\ res.inst.op = "And"
    /\ res.inst.order = "Acquire"

\* C19: build-encode-decode for Zicsr. For every csr in 0..=4095, every dest
\* and src in x0..=x31, every uimm in 0..=31 and every xlen, each of Csrrw /
\* Csrrs / Csrrc { csr, dest, src } and Csrrwi / Csrrsi / Csrrci { csr, dest,
\* uimm } satisfies decode(encode_normal(inst, xlen), xlen) =
\* Ok((inst, IsCompressed::No)).
C19_ZicsrRoundTrip ==
    (pc \in {"built_encoded", "built_redecoded"}
        /\ built.variant \in {"Csrrw", "Csrrs", "Csrrc", "Csrrwi", "Csrrsi", "Csrrci"}) =>
        /\ enc # PANIC_BITS
        /\ pc = "built_redecoded" =>
              res2 = [tag |-> "Ok", inst |-> built, is_compressed |-> "No"]

\* C19, amended: the same round trip for every Zicsr instruction except
\* Csrrw { csr: 0xC00, dest: x0, src: x0 }, whose encoding is the word
\* 0xC0001073 that decode rejects with Err("unimp instruction").
C19_ZicsrRoundTripExceptUnimp ==
    (pc \in {"built_encoded", "built_redecoded"}
        /\ built.variant \in {"Csrrw", "Csrrs", "Csrrc", "Csrrwi", "Csrrsi", "Csrrci"}) =>
        /\ enc # PANIC_BITS
        /\ pc = "built_redecoded" =>
              IF built = [variant |-> "Csrrw", csr |-> 3072, dest |-> Reg_ZERO, src |-> Reg_ZERO]
              THEN /\ enc = UnimpWord
                   /\ res2 = Err(enc, "unimp instruction")
              ELSE res2 = [tag |-> "Ok", inst |-> built, is_compressed |-> "No"]

\* csrrwi x31, 0xFFF, 31 was built, encoded and decoded back by decode()
C19_Witness ==
    /\ pc = "built_redecoded"
    /\ built.variant = "Csrrwi"
    /\ built.csr = 4095
    /\ built.dest = 31
    /\ BitsToNat(built.uimm, 0, 4) = 31
    /\ res2.tag = "Ok"
    /\ res2.inst = built

\* C20: build-encode-decode for F / D. For every floating-point Inst variant
\* built with register indices in 0..=31, any of the six rounding modes and
\* (for loads and stores) an offset in -2048..=2047, decode(encode_normal(inst,
\* xlen), xlen) = Ok((inst, IsCompressed::No)) under Rv64 for all variants and
\* under Rv32 for every variant that is not RV64-only (FcvtL* / Fcvt*L* /
\* FmvXD / FmvDX).
C20_FpRoundTrip ==
    LET Rv64OnlyFp == {"FcvtLS", "FcvtLuS", "FcvtSL", "FcvtSLu", "FcvtLD", "FcvtLuD",
                       "FcvtDL", "FcvtDLu", "FmvXD", "FmvDX"}
    IN  (pc \in {"built_encoded", "built_redecoded"}
            /\ built.variant \notin {"Csrrw", "Csrrs", "Csrrc", "Csrrwi", "Csrrsi", "Csrrci"}
            /\ (xlen = "Rv64" \/ built.variant \notin Rv64OnlyFp)) =>
            /\ enc # PANIC_BITS
            /\ pc = "built_redecoded" =>
                  res2 = [tag |-> "Ok", inst |-> built, is_compressed |-> "No"]

\* fcvt.s.d with a dynamic rounding mode was built, encoded and decoded back by
\* decode() under Rv32
C20_Witness ==
    /\ pc = "built_redecoded"
    /\ xlen = "Rv32"
    /\ built.variant = "FcvtSD"
    /\ built.rm = "Dynamic"
    /\ built.dest = 1
    /\ built.src = 30
    /\ res2.tag = "Ok"
    /\ res2.inst = built
    /\ res2.is_compressed = "No"

-----------------------------------------------------------------------------
\* C21: fence.tso recognition. For every Fence value, is_tso() returns true
\* exactly when fm = 0b1000 and both pred and succ are exactly rw
\* (memory_read and memory_write set, device_input and device_output clear),
\* and the pretty-printer renders a Fence as fence.tso only for such values.
C21_TsoRecognition ==
    LET f == res.inst.fence
        rw == [device_input |-> FALSE, device_output |-> FALSE,
               memory_read |-> TRUE, memory_write |-> TRUE]
        exact == f.fm = \b1000 /\ f.pred = rw /\ f.succ = rw
    IN  /\ pc = "queried" => (out.is_tso <=> exact)
        /\ (pc = "printed" /\ res.inst.variant = "Fence" /\ out.mnemonic = "fence.tso") => exact

\* is_tso() answered true, and Display printed fence.tso, for a Fence with
\* fm = 0b1000 whose succ has a device bit set
C21_TsoWithDeviceBits ==
    /\ pc \in {"queried", "printed"}
    /\ res.inst.variant = "Fence"
    /\ res.inst.fence.fm = \b1000
    /\ res.inst.fence.succ.device_input
    /\ IF pc = "queried" THEN out.is_tso ELSE out.mnemonic = "fence.tso"

-----------------------------------------------------------------------------
-----------------------------------------------------------------------------
\* C24: gather/scatter inverse. For each base immediate format m in
\* {I, S, B, U, J}, every 32-bit word w and every value v representable in
\* the format, imm_m(with_imm_m(w, v)) = v, where the signed gather
\* sign-extends from bit max(dst_bit + range_width) - 1 over the format's
\* mappings (bit 11 for I and S, 12 for B, 20 for J, 31 for U).
C24_GatherScatterInverse ==
    pc = "gathered" =>
        LET top == [I |-> 11, S |-> 11, B |-> 12, U |-> 31, J |-> 20][sg.m]
            \* the i32 the low 32 bits of an Imm hold
            value(imm) ==
                IF imm[31] = 0 THEN ToNat(as_u32(imm))
                ELSE (0 - ToNat(BitNot(as_u32(imm)))) - 1
        IN  /\ sg.imm # PANIC_BITS
            /\ sg.imm = sg.data
            /\ value(sg.imm) = sg.v
            /\ \A i \in top..63 : sg.imm[i] = sg.imm[top]

\* the least B-format value, -4096, was scattered into the all-ones word
\* and gathered again
C24_Witness ==
    /\ pc = "gathered"
    /\ sg.m = "B"
    /\ sg.v = 0 - 4096
    /\ sg.w = [i \in 0..31 |-> 1]
    /\ sg.imm[63] = 1
    /\ sg.code[31] = 1 /\ sg.code[7] = 0

-----------------------------------------------------------------------------
\* C25: encoder shift-immediate scatter. For every Slli, Srli or Srai value
\* with imm in 0..=63 and any registers, encode_normal under Rv32 writes only
\* the low 5 bits of imm into bits 24..20 and leaves bits 31..25 equal to the
\* fixed funct7 (0000000 for Slli / Srli, 0100000 for Srai); under Rv64 it
\* writes the low 6 bits of imm into bits 25..20 and leaves bits 31..26 equal
\* to 000000 (Slli / Srli) or 010000 (Srai).
C25_ShiftImmediateScatter ==
    (/\ pc = "any_encoded"
     /\ built.variant \in {"Slli", "Srli", "Srai"}
     /\ \A b \in 6..63 : built.imm[b] = 0) =>
        /\ enc # PANIC_BITS
        /\ IF xlen = "Rv32"
           THEN /\ BitsToNat(enc, 20, 24) = BitsToNat(built.imm, 0, 4)
                /\ BitsToNat(enc, 25, 31) =
                       IF built.variant = "Srai" THEN \b0100000 ELSE \b0000000
           ELSE /\ BitsToNat(enc, 20, 25) = BitsToNat(built.imm, 0, 5)
                /\ BitsToNat(enc, 26, 31) =
                       IF built.variant = "Srai" THEN \b010000 ELSE \b000000

\* Slli with imm = 32 was encoded under Rv32 and bit 25 of the word is set
C25_SlliSpillsIntoFunct7 ==
    /\ pc = "any_encoded"
    /\ xlen = "Rv32"
    /\ built.variant = "Slli"
    /\ BitsToNat(built.imm, 0, 31) = 32
    /\ enc # PANIC_BITS
    /\ enc[25] = 1

-----------------------------------------------------------------------------
\* C26: C.ANDI is decoded to the semantically equivalent Andi. For every xlen
\* and every 16-bit word with quadrant 01, funct3 100 and bits 11..10 = 10,
\* decode_compressed returns Andi { dest: rd', src1: rd', imm } where imm is
\* the 6-bit immediate (bit 12 as bit 5, bits 6..2 as bits 4..0)
\* sign-extended, so imm is in -32..=31 and is negative exactly when bit 12
\* is set.
C26_CAndiSignExtended ==
    (/\ pc = "decoded" /\ entry = "compressed"
     /\ BitsToNat(code, 0, 1) = \b01
     /\ BitsToNat(code, 13, 15) = \b100
     /\ BitsToNat(code, 10, 11) = \b10) =>
        /\ res.tag = "Ok"
        /\ res.inst.variant = "Andi"
        /\ res.inst.dest = 8 + BitsToNat(code, 7, 9)
        /\ res.inst.src1 = 8 + BitsToNat(code, 7, 9)
        /\ res.inst.imm = [b \in 0..63 |-> IF b <= 4 THEN code[b + 2] ELSE code[12]]

\* c.andi a3, -1 (0x9AFD) was decoded and the immediate of the Andi is 63
C26_CAndiZeroExtended ==
    /\ pc = "decoded" /\ entry = "compressed"
    /\ BitsToNat(code, 0, 15) = 39677
    /\ res.tag = "Ok"
    /\ res.inst.variant = "Andi"
    /\ res.inst.dest = 13 /\ res.inst.src1 = 13
    /\ BitsToNat(res.inst.imm, 0, 30) = 63
    /\ \A b \in 31..63 : res.inst.imm[b] = 0

-----------------------------------------------------------------------------
\* C27: C.LDSP is decoded to the semantically equivalent Ld. With xlen = Rv64,
\* for every 16-bit word with quadrant 10, funct3 011 and rd != 0,
\* decode_compressed returns Ld { dest: rd, base: sp, offset } where offset is
\* the zero-extended doubleword-scaled immediate built from bit 12 as
\* offset[5], bits 6..5 as offset[4:3] and bits 4..2 as offset[8:6], so offset
\* is a multiple of 8 in 0..=504.
C27_CLdspOffset ==
    (/\ pc = "decoded" /\ entry = "compressed" /\ xlen = "Rv64"
     /\ BitsToNat(code, 0, 1) = \b10
     /\ BitsToNat(code, 13, 15) = \b011
     /\ BitsToNat(code, 7, 11) # 0) =>
        /\ res.tag = "Ok"
        /\ res.inst.variant = "Ld"
        /\ res.inst.dest = BitsToNat(code, 7, 11)
        /\ res.inst.base = Reg_SP
        /\ res.inst.offset # PANIC_BITS
        /\ \A b \in 31..63 : res.inst.offset[b] = 0
        /\ BitsToNat(res.inst.offset, 0, 30) =
               32 * code[12] + 8 * BitsToNat(code, 5, 6) + 64 * BitsToNat(code, 2, 4)
        /\ BitsToNat(res.inst.offset, 0, 30) % 8 = 0
        /\ BitsToNat(res.inst.offset, 0, 30) <= 504

\* c.ldsp ra, 336(sp) (0x60D6) was decoded under Rv64 and the offset of the
\* Ld is 84
C27_CLdspWordScaled ==
    /\ pc = "decoded" /\ entry = "compressed" /\ xlen = "Rv64"
    /\ BitsToNat(code, 0, 15) = 24790
    /\ res.tag = "Ok"
    /\ res.inst.variant = "Ld"
    /\ res.inst.dest = Reg_RA /\ res.inst.base = Reg_SP
    /\ BitsToNat(res.inst.offset, 0, 30) = 84

-----------------------------------------------------------------------------
-----------------------------------------------------------------------------
-----------------------------------------------------------------------------
=============================================================================
